---- MODULE Spec2Model ----
(***************************************************************************)
(* Identity and session subsystem of the Compify backend: the in-memory    *)
(* Credential Store (MemoryUserRepository), the Session Registry           *)
(* (MemorySessionRepository), the models they store (User, Profile,        *)
(* Session) and the Auth Orchestrator (auth.Service).                      *)
(*                                                                         *)
(* Go strings that the code inspects character by character (emails,       *)
(* usernames, names, passwords) are sequences of one-character strings.    *)
(* Opaque strings (ids, tokens, salts) are TLA+ strings.  The repositories *)
(* store POINTERS: the Go heap is modelled by uheap/pheap/sheap, and the   *)
(* maps of the repositories hold addresses into them.                      *)
(***************************************************************************)
EXTENDS Integers, Sequences, FiniteSets, TLC

\* ------------------------------------------------------------------ bounds
NProcs == 2          \* concurrent caller threads
MaxUserObjs == 2     \* User objects ever allocated
MaxSessObjs == 2     \* Session objects ever allocated
MaxTime == 2         \* the clock stops here (weeks)
MaxCalls == 3        \* orchestrator calls ever started

Procs == 1..NProcs

\* ------------------------------------------------------------ Go strings
UpperLetters == <<"A","B","C","D","E","F","G","H","I","J","K","L","M",
                  "N","O","P","Q","R","S","T","U","V","W","X","Y","Z">>
LowerLetters == <<"a","b","c","d","e","f","g","h","i","j","k","l","m",
                  "n","o","p","q","r","s","t","u","v","w","x","y","z">>
Digits == {"0","1","2","3","4","5","6","7","8","9"}
Range(s) == {s[i] : i \in DOMAIN s}
Letters == Range(UpperLetters) \cup Range(LowerLetters)

\* strings.ToLower, one character
LowerOf == [c \in Range(UpperLetters) |->
              LowerLetters[CHOOSE i \in DOMAIN UpperLetters : UpperLetters[i] = c]]
ToLowerChar(c) == IF c \in DOMAIN LowerOf THEN LowerOf[c] ELSE c

ToLower(s) == [i \in DOMAIN s |-> ToLowerChar(s[i])]

IsSpace(c) == c \in {" ", "\t", "\n"}

\* strings.TrimSpace: drop leading and trailing white space
TrimSpace(s) ==
  LET keep == {i \in DOMAIN s : ~IsSpace(s[i])}
  IN  IF keep = {} THEN <<>>
      ELSE LET lo == CHOOSE i \in keep : \A j \in keep : i <= j
               hi == CHOOSE i \in keep : \A j \in keep : i >= j
           IN  SubSeq(s, lo, hi)

\* emailRegex  ^[a-zA-Z0-9._%+-]+@[a-zA-Z0-9.-]+\.[a-zA-Z]{2,}$
EmailLocalChars == Letters \cup Digits \cup {".", "_", "%", "+", "-"}
EmailDomainChars == Letters \cup Digits \cup {".", "-"}
emailRegex(s) ==
  \E i \in 2..Len(s) : \E j \in (i + 2)..(Len(s) - 2) :
     /\ s[i] = "@"
     /\ \A k \in 1..(i - 1) : s[k] \in EmailLocalChars
     /\ \A k \in (i + 1)..(j - 1) : s[k] \in EmailDomainChars
     /\ s[j] = "."
     /\ \A k \in (j + 1)..Len(s) : s[k] \in Letters

\* usernameRegex  ^[a-zA-Z0-9_-]{3,30}$
UsernameChars == Letters \cup Digits \cup {"_", "-"}
usernameRegex(s) ==
  /\ Len(s) >= 3
  /\ Len(s) <= 30
  /\ \A k \in 1..Len(s) : s[k] \in UsernameChars

\* ---------------------------------------------------------------- errors
\* A Go error: id names the sentinel variable it is (compared with ==), ""
\* for an error made in place; msg is the text of Error(), cut into the
\* fragments that strings.Contains is asked about.
NoErr == [id |-> "nil", msg |-> <<>>]
ErrorsNew(m) == [id |-> "", msg |-> <<m>>]
\* fmt.Errorf(prefix + ": %w", err): a new error, not == to any sentinel
Wrap(prefix, err) == [id |-> "", msg |-> <<prefix>> \o err.msg]
\* strings.Contains(err.Error(), frag)
ErrContains(err, frag) == \E i \in DOMAIN err.msg : err.msg[i] = frag

ErrInvalidEmail == [id |-> "ErrInvalidEmail", msg |-> <<"invalid email", " format">>]
ErrInvalidUsername == [id |-> "ErrInvalidUsername", msg |-> <<"invalid username", " format">>]
ErrEmailTooLong == [id |-> "ErrEmailTooLong", msg |-> <<"email too long">>]
ErrUsernameTooLong == [id |-> "ErrUsernameTooLong", msg |-> <<"username too long">>]
ErrBioTooLong == [id |-> "ErrBioTooLong", msg |-> <<"bio too long">>]
ErrNameTooLong == [id |-> "ErrNameTooLong", msg |-> <<"name too long">>]
ErrEmailExists == ErrorsNew("email already exists")
ErrUsernameExists == ErrorsNew("username already exists")
ErrUserNotFound == ErrorsNew("user not found")

ErrInvalidToken == [id |-> "ErrInvalidToken", msg |-> <<"invalid session token">>]
ErrSessionExpired == [id |-> "ErrSessionExpired", msg |-> <<"session has expired">>]
ErrSessionNotFound == [id |-> "ErrSessionNotFound", msg |-> <<"session not found">>]
ErrInvalidUserID == [id |-> "ErrInvalidUserID", msg |-> <<"invalid user ID">>]

ErrPasswordTooShort ==
  [id |-> "ErrPasswordTooShort", msg |-> <<"password must be at least 8 characters long">>]
ErrPasswordsDoNotMatch == [id |-> "ErrPasswordsDoNotMatch", msg |-> <<"passwords do not match">>]
ErrInvalidCredentials == [id |-> "ErrInvalidCredentials", msg |-> <<"invalid email or password">>]
ErrUserAlreadyExists == [id |-> "ErrUserAlreadyExists", msg |-> <<"user already exists">>]

\* ------------------------------------------------------------ User model
\* User.Validate: the error it returns, NoErr for nil
UserValidate(u) ==
  IF u.Email = <<>> THEN ErrorsNew("email is required")
  ELSE IF Len(u.Email) > 255 THEN ErrEmailTooLong
  ELSE IF ~emailRegex(u.Email) THEN ErrInvalidEmail
  ELSE IF u.Username = <<>> THEN ErrorsNew("username is required")
  ELSE IF Len(u.Username) > 30 THEN ErrUsernameTooLong
  ELSE IF ~usernameRegex(u.Username) THEN ErrInvalidUsername
  ELSE NoErr

\* User.Sanitize
UserSanitize(u) ==
  [u EXCEPT !.Email = TrimSpace(ToLower(u.Email)),
            !.Username = TrimSpace(u.Username)]

\* Profile.Validate
ProfileValidate(p) ==
  IF Len(p.FirstName) > 100 THEN ErrNameTooLong
  ELSE IF Len(p.LastName) > 100 THEN ErrNameTooLong
  ELSE IF Len(p.Bio) > 1000 THEN ErrBioTooLong
  ELSE NoErr

\* Profile.Sanitize
ProfileSanitize(p) ==
  [p EXCEPT !.FirstName = TrimSpace(p.FirstName),
            !.LastName = TrimSpace(p.LastName),
            !.Bio = TrimSpace(p.Bio),
            !.AvatarURL = TrimSpace(p.AvatarURL)]

\* &models.Profile{UserID: id}
EmptyProfile(id) ==
  [UserID |-> id, FirstName |-> <<>>, LastName |-> <<>>, Bio |-> <<>>,
   AvatarURL |-> <<>>]

\* --------------------------------------------------------- Session model
\* DefaultSessionDuration = 24 * time.Hour * 7: one week, the unit of the clock
DefaultSessionDuration == 1

\* Session.IsExpired: time.Now().After(s.ExpiresAt)
IsExpired(s, t) == t > s.ExpiresAt

\* Session.IsValid
IsValid(s, t) == ~IsExpired(s, t) /\ s.Token # ""

\* Session.Extend: the session after s.Extend(duration) at time t
Extend(s, duration, t) == [s EXCEPT !.ExpiresAt = t + duration]

\* Session.ExtendDefault
ExtendDefault(s, t) == Extend(s, DefaultSessionDuration, t)

\* Session.Validate
SessionValidate(s, t) ==
  IF s.UserID = "" THEN ErrInvalidUserID
  ELSE IF s.Token = "" THEN ErrInvalidToken
  ELSE IF IsExpired(s, t) THEN ErrSessionExpired
  ELSE NoErr

\* NewSession, given the token generateSecureToken drew and the time
NewSession(userID, ipAddress, userAgent, token, t) ==
  IF userID = "" THEN [err |-> ErrInvalidUserID, session |-> <<>>]
  ELSE [err |-> NoErr,
        session |-> <<[ID |-> "", UserID |-> userID, Token |-> token,
                       ExpiresAt |-> t + DefaultSessionDuration, CreatedAt |-> t,
                       IPAddress |-> ipAddress, UserAgent |-> userAgent]>>]

\* -------------------------------------------------------- Password Hasher
saltLength == 16
keyLength == 32
time == 1
memory == 64 * 1024
threads == 4

\* argon2.IDKey: a key that depends on every argument and on nothing else
IDKey(password, salt, t, m, p, keyLen) ==
  [password |-> password, salt |-> salt, t |-> t, m |-> m, p |-> p, keyLen |-> keyLen]
\* argon2.IDKey panics ("number of rounds too small", "parallelism degree too
\* low") when time < 1 or threads < 1
IDKeyPanics(t, p) == t < 1 \/ p < 1

\* base64.RawStdEncoding: the text that encodes bytes b
B64Encode(b) == [ok |-> TRUE, bytes |-> b]
\* fmt.Sprintf("m=%d,t=%d,p=%d", m, t, p)
FormatParams(m, t, p) == [ok |-> TRUE, m |-> m, t |-> t, p |-> p]

\* hashPassword with the salt rand.Read drew; the digest is kept as the list
\* strings.Split(digest, "$") gives
hashPassword(password, salt) ==
  <<"", "argon2id", "v=19", FormatParams(memory, time, threads), B64Encode(salt),
    B64Encode(IDKey(password, salt, time, memory, threads, keyLength))>>

\* verifyPassword that derives the key with the current constants
verifyPasswordRun_Constants(password, hash) ==
  IF Len(hash) # 6 THEN "false"
  ELSE IF hash[2] # "argon2id" \/ hash[3] # "v=19" THEN "false"
  ELSE IF ~hash[4].ok THEN "false"
  ELSE IF ~hash[5].ok THEN "false"
  ELSE IF ~hash[6].ok THEN "false"
  ELSE IF hash[6].bytes = IDKey(password, hash[5].bytes, time, memory, threads, keyLength)
  THEN "true" ELSE "false"

\* verifyPassword, run: "true", "false", or "panic" when argon2.IDKey panics.
\* uint8(p) keeps the low eight bits of p.
verifyPasswordRun(password, hash) ==
  IF Len(hash) # 6 THEN "false"
  ELSE IF hash[2] # "argon2id" \/ hash[3] # "v=19" THEN "false"
  ELSE IF ~hash[4].ok THEN "false"
  ELSE IF ~hash[5].ok THEN "false"
  ELSE IF ~hash[6].ok THEN "false"
  ELSE IF IDKeyPanics(hash[4].t, hash[4].p % 256) THEN "panic"
  ELSE LET expectedHash == hash[6].bytes
           actualHash == IDKey(password, hash[5].bytes, hash[4].t, hash[4].m,
                               hash[4].p % 256, expectedHash.keyLen)
       IN  IF expectedHash = actualHash THEN "true" ELSE "false"

\* verifyPassword as Login reads it: the bool it returns
verifyPassword(password, hash) == verifyPasswordRun(password, hash) = "true"

\* ------------------------------------------------------------------ state
VARIABLES
  now,        \* time.Now(), in weeks
  uheap,      \* the User objects that were ever stored, by address
  pheap,      \* the Profile objects Create allocated, by address
  users,      \* MemoryUserRepository.users: id -> address of a User
  profiles,   \* MemoryUserRepository.profiles: id -> reference to a Profile
  sheap,      \* the Session objects that were ever stored, by address
  sessions,   \* MemorySessionRepository.sessions: token -> address of a Session
  registrations, \* the RegistrationRepository: the Registrations stored
  th,         \* per caller thread: the call it is in and its locals
  ret,        \* the return of a call, if the last step was one: the request, the result
  loggedOut,  \* history: tokens whose Logout, called directly, returned while they resolved
  sawExpired, \* history: the sessions (addresses) a direct read has reported as expired
  accepted,   \* history: the requests Register has accepted
  calls       \* history: the orchestrator calls started so far

vars == <<now, uheap, pheap, users, profiles, sheap, sessions, registrations, th, ret,
          loggedOut, sawExpired, accepted, calls>>
userVars == <<uheap, pheap, users, profiles>>
sessVars == <<sheap, sessions>>
histVars == <<loggedOut, sawExpired, accepted>>
\* a call starts: one more of the MaxCalls the model follows
StartCall == calls < MaxCalls /\ calls' = calls + 1

\* a Go map as a function; m[k] = v
MapPut(m, k, v) == [x \in DOMAIN m \cup {k} |-> IF x = k THEN v ELSE m[x]]
\* delete(m, k)
MapDelete(m, k) == [x \in DOMAIN m \ {k} |-> m[x]]
EmptyMap == [x \in {} |-> 0]

\* generateID / generateSecureToken: 16 or 32 bytes of crypto/rand, hex-encoded.
\* Two draws never agree: the value is named after the object it is drawn for.
generateID(kind, a) == kind \o ToString(a)
\* a token source that draws the same value twice
generateSecureToken_Fixed(a) == "t0"
generateSecureToken(a) == "t" \o ToString(a)

\* ------------------------------------------------------- Credential Store
\* The Credential Store and the heap it points into, as one value.
CS == [uheap |-> uheap, pheap |-> pheap, users |-> users, profiles |-> profiles]
SetCS(cs) ==
  /\ uheap' = cs.uheap
  /\ pheap' = cs.pheap
  /\ users' = cs.users
  /\ profiles' = cs.profiles

\* A *Profile points to a Profile object (k = "p") or to the Profile field of
\* a User object (k = "u": &user.Profile).
ProfilePtr(a) == [k |-> "p", a |-> a]
FieldPtr(a) == [k |-> "u", a |-> a]
Deref(cs, ref) == IF ref.k = "p" THEN cs.pheap[ref.a] ELSE cs.uheap[ref.a].Profile
Store(cs, ref, val) ==
  IF ref.k = "p" THEN [cs EXCEPT !.pheap[ref.a] = val]
  ELSE [cs EXCEPT !.uheap[ref.a].Profile = val]

\* new(User) at the next free address
AllocUser(cs, u) == [cs EXCEPT !.uheap = Append(cs.uheap, u)]

\* the error the uniqueness scan of Create returns when it stops at x
DuplicateError(x, u) == IF x.Email = u.Email THEN ErrEmailExists ELSE ErrUsernameExists

\* what the repository holds: the maps, and behind them the accounts and the
\* profiles they point to
Stored(cs) ==
  [users |-> cs.users,
   profiles |-> cs.profiles,
   accounts |-> [id \in DOMAIN cs.users |-> cs.uheap[cs.users[id]]],
   profileOf |-> [id \in DOMAIN cs.profiles |-> Deref(cs, cs.profiles[id])]]

\* Create that files the user before it validates it
UsersCreate_StoreFirst(cs, a, t) ==
  {[err |-> UserValidate(cs.uheap[a]),
    cs |-> [cs EXCEPT !.users = MapPut(cs.users, cs.uheap[a].ID, a)]]}

\* Create whose uniqueness scan compares the e-mail as the caller wrote it
UsersCreate_RawScan(cs, a, t) ==
  LET verr == UserValidate(cs.uheap[a]) IN
  IF verr # NoErr THEN {[err |-> verr, cs |-> cs]}
  ELSE
    LET u0 == cs.uheap[a]
        cs1 == [cs EXCEPT !.uheap[a] = UserSanitize(cs.uheap[a])]
        u1 == cs1.uheap[a]
        hits == {id \in DOMAIN cs1.users :
                   \/ cs1.uheap[cs1.users[id]].Email = u0.Email
                   \/ cs1.uheap[cs1.users[id]].Username = u0.Username}
    IN  IF hits # {}
        THEN {[err |-> DuplicateError(cs1.uheap[cs1.users[id]], u0), cs |-> cs1] : id \in hits}
        ELSE
          LET id == IF u1.ID = "" THEN generateID("u", a) ELSE u1.ID
              pa == Len(cs1.pheap) + 1
              u2 == [u1 EXCEPT !.ID = id, !.Profile = EmptyProfile(id)]
          IN  {[err |-> NoErr,
                cs |-> [uheap |-> [cs1.uheap EXCEPT ![a] = u2],
                        pheap |-> Append(cs1.pheap, EmptyProfile(id)),
                        users |-> MapPut(cs1.users, id, a),
                        profiles |-> MapPut(cs1.profiles, id, ProfilePtr(pa))]]}

\* Create without the uniqueness scan
UsersCreate_NoScan(cs, a, t) ==
  LET verr == UserValidate(cs.uheap[a]) IN
  IF verr # NoErr THEN {[err |-> verr, cs |-> cs]}
  ELSE
    LET cs1 == [cs EXCEPT !.uheap[a] = UserSanitize(cs.uheap[a])]
        u1 == cs1.uheap[a]
        id == IF u1.ID = "" THEN generateID("u", a) ELSE u1.ID
        pa == Len(cs1.pheap) + 1
        u2 == [u1 EXCEPT !.ID = id, !.Profile = EmptyProfile(id)]
    IN  {[err |-> NoErr,
          cs |-> [uheap |-> [cs1.uheap EXCEPT ![a] = u2],
                  pheap |-> Append(cs1.pheap, EmptyProfile(id)),
                  users |-> MapPut(cs1.users, id, a),
                  profiles |-> MapPut(cs1.profiles, id, ProfilePtr(pa))]]}

\* MemoryUserRepository.Create(user), user = &uheap[a]: the outcomes [err, cs].
\* CreatedAt and UpdatedAt are written here and in Update and read nowhere:
\* the model leaves the two fields out.
\* The scan ranges over a Go map, so it may stop at any stored user that matches.
UsersCreate(cs, a, t) ==
  LET verr == UserValidate(cs.uheap[a]) IN
  IF verr # NoErr THEN {[err |-> verr, cs |-> cs]}
  ELSE
    LET cs1 == [cs EXCEPT !.uheap[a] = UserSanitize(cs.uheap[a])]
        u1 == cs1.uheap[a]
        hits == {id \in DOMAIN cs1.users :
                   \/ cs1.uheap[cs1.users[id]].Email = u1.Email
                   \/ cs1.uheap[cs1.users[id]].Username = u1.Username}
    IN  IF hits # {}
        THEN {[err |-> DuplicateError(cs1.uheap[cs1.users[id]], u1), cs |-> cs1] : id \in hits}
        ELSE
          LET id == IF u1.ID = "" THEN generateID("u", a) ELSE u1.ID
              pa == Len(cs1.pheap) + 1
              u2 == [u1 EXCEPT !.ID = id, !.Profile = EmptyProfile(id)]
          IN  {[err |-> NoErr,
                cs |-> [uheap |-> [cs1.uheap EXCEPT ![a] = u2],
                        pheap |-> Append(cs1.pheap, EmptyProfile(id)),
                        users |-> MapPut(cs1.users, id, a),
                        profiles |-> MapPut(cs1.profiles, id, ProfilePtr(pa))]]}

\* "Load profile" of the Get operations: user.Profile = *profile, a write to
\* the stored User object
LoadProfile(cs, a, id) ==
  IF id \in DOMAIN cs.profiles
  THEN [cs EXCEPT !.uheap[a].Profile = Deref(cs, cs.profiles[id])]
  ELSE cs

\* MemoryUserRepository.GetByID(id): [err, a, cs]
UsersGetByID(cs, id) ==
  IF id \notin DOMAIN cs.users THEN [err |-> ErrUserNotFound, a |-> 0, cs |-> cs]
  ELSE [err |-> NoErr, a |-> cs.users[id], cs |-> LoadProfile(cs, cs.users[id], id)]

\* MemoryUserRepository.GetByEmail(email): the outcomes [err, a, cs]; the first
\* match of a scan over a Go map
UsersGetByEmail(cs, email) ==
  LET hits == {id \in DOMAIN cs.users : cs.uheap[cs.users[id]].Email = email} IN
  IF hits = {} THEN {[err |-> ErrUserNotFound, a |-> 0, cs |-> cs]}
  ELSE {[err |-> NoErr, a |-> cs.users[id],
         cs |-> LoadProfile(cs, cs.users[id], cs.uheap[cs.users[id]].ID)] : id \in hits}

\* MemoryUserRepository.GetByUsername(username)
UsersGetByUsername(cs, username) ==
  LET hits == {id \in DOMAIN cs.users : cs.uheap[cs.users[id]].Username = username} IN
  IF hits = {} THEN {[err |-> ErrUserNotFound, a |-> 0, cs |-> cs]}
  ELSE {[err |-> NoErr, a |-> cs.users[id],
         cs |-> LoadProfile(cs, cs.users[id], cs.uheap[cs.users[id]].ID)] : id \in hits}

\* MemoryUserRepository.Update(user), user = &uheap[a]: [err, cs]
UsersUpdate(cs, a, t) ==
  LET verr == UserValidate(cs.uheap[a]) IN
  IF verr # NoErr THEN [err |-> verr, cs |-> cs]
  ELSE
    LET cs1 == [cs EXCEPT !.uheap[a] = UserSanitize(cs.uheap[a])]
        id == cs1.uheap[a].ID
    IN  IF id \notin DOMAIN cs1.users THEN [err |-> ErrUserNotFound, cs |-> cs1]
        ELSE [err |-> NoErr, cs |-> [cs1 EXCEPT !.users[id] = a]]

\* MemoryUserRepository.Delete(id): [err, cs]
UsersDelete(cs, id) ==
  IF id \notin DOMAIN cs.users THEN [err |-> ErrUserNotFound, cs |-> cs]
  ELSE [err |-> NoErr,
        cs |-> [cs EXCEPT !.users = MapDelete(cs.users, id),
                          !.profiles = MapDelete(cs.profiles, id)]]

\* an UpdateProfile that does not ask whether the account exists
UsersUpdateProfile_NoCheck(cs, ref) ==
  LET verr == ProfileValidate(Deref(cs, ref)) IN
  IF verr # NoErr THEN [err |-> verr, cs |-> cs]
  ELSE
    LET cs1 == Store(cs, ref, ProfileSanitize(Deref(cs, ref)))
        id == Deref(cs1, ref).UserID
    IN  [err |-> NoErr, cs |-> [cs1 EXCEPT !.profiles = MapPut(cs1.profiles, id, ref)]]

\* MemoryUserRepository.UpdateProfile(profile), profile = ref: [err, cs]
UsersUpdateProfile(cs, ref) ==
  LET verr == ProfileValidate(Deref(cs, ref)) IN
  IF verr # NoErr THEN [err |-> verr, cs |-> cs]
  ELSE
    LET cs1 == Store(cs, ref, ProfileSanitize(Deref(cs, ref)))
        id == Deref(cs1, ref).UserID
    IN  IF id \notin DOMAIN cs1.users THEN [err |-> ErrUserNotFound, cs |-> cs1]
        ELSE [err |-> NoErr, cs |-> [cs1 EXCEPT !.profiles = MapPut(cs1.profiles, id, ref)]]

\* MemoryUserRepository.GetProfile(userID): [err, ref]
UsersGetProfile(cs, userID) ==
  IF userID \notin DOMAIN cs.profiles THEN [err |-> ErrorsNew("profile not found"), ref |-> <<>>]
  ELSE [err |-> NoErr, ref |-> <<cs.profiles[userID]>>]

\* -------------------------------------------------------- Session Registry
SS == [sheap |-> sheap, sessions |-> sessions]
SetSS(ss) ==
  /\ sheap' = ss.sheap
  /\ sessions' = ss.sessions

\* new(Session) at the next free address
AllocSession(ss, s) == [ss EXCEPT !.sheap = Append(ss.sheap, s)]

\* Create that files the session under its ID
SessionsCreate_ByID(ss, a, t) ==
  LET verr == SessionValidate(ss.sheap[a], t) IN
  IF verr # NoErr THEN [err |-> verr, ss |-> ss]
  ELSE
    LET id == IF ss.sheap[a].ID = "" THEN generateID("s", a) ELSE ss.sheap[a].ID
        ss1 == [ss EXCEPT !.sheap[a].ID = id]
    IN  [err |-> NoErr, ss |-> [ss1 EXCEPT !.sessions = MapPut(ss1.sessions, id, a)]]

\* a Create that keeps the record a token already has
SessionsCreate_KeepFirst(ss, a, t) ==
  LET verr == SessionValidate(ss.sheap[a], t) IN
  IF verr # NoErr THEN [err |-> verr, ss |-> ss]
  ELSE
    LET id == IF ss.sheap[a].ID = "" THEN generateID("s", a) ELSE ss.sheap[a].ID
        ss1 == [ss EXCEPT !.sheap[a].ID = id]
    IN  [err |-> NoErr,
         ss |-> IF ss1.sheap[a].Token \in DOMAIN ss1.sessions THEN ss1
                ELSE [ss1 EXCEPT !.sessions = MapPut(ss1.sessions, ss1.sheap[a].Token, a)]]

\* MemorySessionRepository.Create(session), session = &sheap[a]: [err, ss]
SessionsCreate(ss, a, t) ==
  LET verr == SessionValidate(ss.sheap[a], t) IN
  IF verr # NoErr THEN [err |-> verr, ss |-> ss]
  ELSE
    LET id == IF ss.sheap[a].ID = "" THEN generateID("s", a) ELSE ss.sheap[a].ID
        ss1 == [ss EXCEPT !.sheap[a].ID = id]
    IN  [err |-> NoErr,
         ss |-> [ss1 EXCEPT !.sessions = MapPut(ss1.sessions, ss1.sheap[a].Token, a)]]

\* GetByToken without the expiry check
SessionsGetByToken_NoExpiry(ss, token, t) ==
  IF token \notin DOMAIN ss.sessions THEN [err |-> ErrSessionNotFound, a |-> 0]
  ELSE [err |-> NoErr, a |-> ss.sessions[token]]

\* MemorySessionRepository.GetByToken(token): [err, a]
SessionsGetByToken(ss, token, t) ==
  IF token \notin DOMAIN ss.sessions THEN [err |-> ErrSessionNotFound, a |-> 0]
  ELSE IF IsExpired(ss.sheap[ss.sessions[token]], t) THEN [err |-> ErrSessionExpired, a |-> 0]
  ELSE [err |-> NoErr, a |-> ss.sessions[token]]

\* a GetByUserID without the expiry check
SessionsGetByUserID_NoExpiry(ss, userID, t) ==
  {ss.sessions[tok] : tok \in {k \in DOMAIN ss.sessions :
       ss.sheap[ss.sessions[k]].UserID = userID}}

\* MemorySessionRepository.GetByUserID(userID): the sessions returned
SessionsGetByUserID(ss, userID, t) ==
  {ss.sessions[tok] : tok \in {k \in DOMAIN ss.sessions :
       /\ ss.sheap[ss.sessions[k]].UserID = userID
       /\ ~IsExpired(ss.sheap[ss.sessions[k]], t)}}

\* MemorySessionRepository.Update(session), session = &sheap[a]: [err, ss]
SessionsUpdate(ss, a, t) ==
  LET verr == SessionValidate(ss.sheap[a], t) IN
  IF verr # NoErr THEN [err |-> verr, ss |-> ss]
  ELSE IF ss.sheap[a].Token \notin DOMAIN ss.sessions THEN [err |-> ErrSessionNotFound, ss |-> ss]
  ELSE [err |-> NoErr, ss |-> [ss EXCEPT !.sessions[ss.sheap[a].Token] = a]]

\* MemorySessionRepository.Delete(id): the outcomes [err, ss]; the first match
\* of a scan over a Go map
SessionsDelete(ss, id) ==
  LET hits == {k \in DOMAIN ss.sessions : ss.sheap[ss.sessions[k]].ID = id} IN
  IF hits = {} THEN {[err |-> ErrSessionNotFound, ss |-> ss]}
  ELSE {[err |-> NoErr, ss |-> [ss EXCEPT !.sessions = MapDelete(ss.sessions, k)]] : k \in hits}

\* DeleteByToken that reports success and leaves the record
SessionsDeleteByToken_Keep(ss, token) ==
  IF token \notin DOMAIN ss.sessions THEN [err |-> ErrSessionNotFound, ss |-> ss]
  ELSE [err |-> NoErr, ss |-> ss]

\* a DeleteByToken that removes every session of the token's owner
SessionsDeleteByToken_Owner(ss, token) ==
  IF token \notin DOMAIN ss.sessions THEN [err |-> ErrSessionNotFound, ss |-> ss]
  ELSE [err |-> NoErr,
        ss |-> [ss EXCEPT !.sessions =
                  [k \in {x \in DOMAIN ss.sessions :
                            ss.sheap[ss.sessions[x]].UserID # ss.sheap[ss.sessions[token]].UserID}
                     |-> ss.sessions[k]]]]

\* MemorySessionRepository.DeleteByToken(token): [err, ss]
SessionsDeleteByToken(ss, token) ==
  IF token \notin DOMAIN ss.sessions THEN [err |-> ErrSessionNotFound, ss |-> ss]
  ELSE [err |-> NoErr, ss |-> [ss EXCEPT !.sessions = MapDelete(ss.sessions, token)]]

\* a DeleteByUserID that empties the registry
SessionsDeleteByUserID_All(ss, userID) ==
  [err |-> NoErr, ss |-> [ss EXCEPT !.sessions = EmptyMap]]

\* MemorySessionRepository.DeleteByUserID(userID): [err, ss]
SessionsDeleteByUserID(ss, userID) ==
  LET tokensToDelete == {k \in DOMAIN ss.sessions : ss.sheap[ss.sessions[k]].UserID = userID}
  IN  [err |-> NoErr,
       ss |-> [ss EXCEPT !.sessions = [k \in DOMAIN ss.sessions \ tokensToDelete |-> ss.sessions[k]]]]

\* a DeleteExpired that also removes the sessions that expire at this instant
SessionsDeleteExpired_AtExpiry(ss, t) ==
  LET tokensToDelete == {k \in DOMAIN ss.sessions : t >= ss.sheap[ss.sessions[k]].ExpiresAt}
  IN  [err |-> NoErr,
       ss |-> [ss EXCEPT !.sessions = [k \in DOMAIN ss.sessions \ tokensToDelete |-> ss.sessions[k]]]]

\* MemorySessionRepository.DeleteExpired(): [err, ss]
SessionsDeleteExpired(ss, t) ==
  LET tokensToDelete == {k \in DOMAIN ss.sessions : t > ss.sheap[ss.sessions[k]].ExpiresAt}
  IN  [err |-> NoErr,
       ss |-> [ss EXCEPT !.sessions = [k \in DOMAIN ss.sessions \ tokensToDelete |-> ss.sessions[k]]]]

\* ------------------------------------------------------------------ inputs
e_a == <<"a", "@", "b", ".", "c", "o">>
e_A == <<"A", "@", "b", ".", "c", "o">>
e_c == <<"c", "@", "b", ".", "c", "o">>
e_bad == <<"a", "b", ".", "c", "o">>
u_bob == <<"b", "o", "b">>
u_amy == <<"a", "m", "y">>
pw_1 == <<"p", "a", "s", "s", "w", "o", "r", "d">>
pw_2 == <<"h", "u", "n", "t", "e", "r", "2", "2">>
pw_short == <<"a", "b", "c">>
n_al == <<"A", "l">>
n_li == <<"L", "i">>
\* a name one character over the ceiling of Profile.Validate
n_long == [i \in 1..101 |-> "x"]

Salts == {"salt1"}
ClientIP == "127.0.0.1"
ClientAgent == "agent"

RegistrationRequest(e, u, pw, cpw) ==
  [Email |-> e, Username |-> u, Password |-> pw, ConfirmPassword |-> cpw,
   FirstName |-> n_al, LastName |-> n_li]

\* requests that pass validateRegistrationRequest and User.Validate
GoodRegistrations ==
  {RegistrationRequest(e_A, u_bob, pw_1, pw_1), RegistrationRequest(e_c, u_bob, pw_1, pw_1),
   RegistrationRequest(e_A, u_amy, pw_1, pw_1)}
RegistrationRequests ==
  GoodRegistrations \cup {RegistrationRequest(e_a, u_bob, pw_short, pw_short),
                          RegistrationRequest(e_bad, u_bob, pw_1, pw_1)}

LoginRequests ==
  {[Email |-> e_a, Password |-> pw_1], [Email |-> e_a, Password |-> pw_2],
   [Email |-> e_A, Password |-> pw_1], [Email |-> e_c, Password |-> pw_1],
   [Email |-> <<>>, Password |-> pw_1]}

\* the tokens a caller can present: none, one never issued, any issued one
IssuedTokens == {sheap[a].Token : a \in 1..Len(sheap)}
Tokens == {"", "unknown"} \cup IssuedTokens

\* ------------------------------------------------------ Auth Orchestrator
\* validateRegistrationRequest
validateRegistrationRequest(req) ==
  IF req.Email = <<>> THEN ErrorsNew("email is required")
  ELSE IF req.Username = <<>> THEN ErrorsNew("username is required")
  ELSE IF req.Password = <<>> THEN ErrorsNew("password is required")
  ELSE IF Len(req.Password) < 8 THEN ErrPasswordTooShort
  ELSE IF req.Password # req.ConfirmPassword THEN ErrPasswordsDoNotMatch
  ELSE NoErr

\* validateLoginRequest
validateLoginRequest(req) ==
  IF req.Email = <<>> THEN ErrorsNew("email is required")
  ELSE IF req.Password = <<>> THEN ErrorsNew("password is required")
  ELSE NoErr

\* What a call hands back: the error, and the addresses of the User and the
\* Session it returns (0 for nil).
Result(op, err, user, session) == [op |-> op, err |-> err, user |-> user, session |-> session]
IdleThread == [pc |-> "idle", req |-> <<>>, a |-> 0]
InCall(pc, req, a) == [pc |-> pc, req |-> req, a |-> a]

NoReturn == [req |-> <<>>, op |-> "none", err |-> NoErr, user |-> 0, session |-> 0]

\* thread p returns res from the call it made with request req
Return(p, req, res) ==
  /\ th' = [th EXCEPT ![p] = IdleThread]
  /\ ret' = [req |-> <<req>>, op |-> res.op, err |-> res.err, user |-> res.user,
             session |-> res.session]
\* thread p goes on with the next step of its call
Goto(p, pc, a) ==
  /\ th' = [th EXCEPT ![p].pc = pc, ![p].a = a]
  /\ ret' = NoReturn
\* thread p enters a call
Enter(p, pc, req) ==
  /\ th' = [th EXCEPT ![p] = InCall(pc, req, 0)]
  /\ ret' = NoReturn

\* calls in flight that will still allocate a User / a Session
PendingUsers == Cardinality({q \in Procs : th[q].pc \in {"reg_getByEmail", "reg_getByUsername", "reg_create"}})
PendingSessions ==
  Cardinality({q \in Procs : th[q].pc \in {"reg_getByEmail", "reg_getByUsername", "reg_create",
                  "reg_updateProfile", "reg_createSession", "login_getByEmail", "login_createSession"}})

\* the models.User Register builds (service.go:84-92)
NewUser(req, passwordHash) ==
  [ID |-> "", Email |-> req.Email, Username |-> req.Username, PasswordHash |-> passwordHash,
   Profile |-> [EmptyProfile("") EXCEPT !.FirstName = req.FirstName, !.LastName = req.LastName]]

\* GetUserFromSession that calls an empty token invalid
GetUserFromSession_EmptyInvalid(cs, ss, token, t) ==
  IF token = "" THEN [err |-> ErrInvalidToken, a |-> 0, cs |-> cs]
  ELSE LET o == SessionsGetByToken(ss, token, t) IN
       IF o.err # NoErr THEN [err |-> o.err, a |-> 0, cs |-> cs]
       ELSE UsersGetByID(cs, ss.sheap[o.a].UserID)

\* GetUserFromSession(sessionToken) run without interruption: [err, a, cs]
GetUserFromSession(cs, ss, token, t) ==
  IF token = "" THEN [err |-> ErrSessionNotFound, a |-> 0, cs |-> cs]
  ELSE LET o == SessionsGetByToken(ss, token, t) IN
       IF o.err # NoErr THEN [err |-> o.err, a |-> 0, cs |-> cs]
       ELSE UsersGetByID(cs, ss.sheap[o.a].UserID)

\* writeErrorResponse(w, statusCode, error, message)
ErrorResponse(statusCode, error, message) ==
  [status |-> statusCode, error |-> error, message |-> message]

\* handleRegister: the response to a Register that returned err
handleRegister(err) ==
  IF err = NoErr THEN [status |-> 201, error |-> "", message |-> "Registration successful"]
  ELSE IF err = ErrUserAlreadyExists THEN ErrorResponse(409, "User already exists", "")
  ELSE IF err = ErrPasswordTooShort
  THEN ErrorResponse(400, "Password too short", "Password must be at least 8 characters long")
  ELSE IF err = ErrPasswordsDoNotMatch THEN ErrorResponse(400, "Passwords do not match", "")
  ELSE IF ErrContains(err, "email already exists") THEN ErrorResponse(409, "Email already exists", "")
  ELSE IF ErrContains(err, "username already exists")
  THEN ErrorResponse(409, "Username already exists", "")
  ELSE IF ErrContains(err, "invalid email") THEN ErrorResponse(400, "Invalid email format", "")
  ELSE IF ErrContains(err, "invalid username")
  THEN ErrorResponse(400, "Invalid username format",
         "Username must be 3-30 characters and contain only letters, numbers, underscores, and hyphens")
  ELSE ErrorResponse(500, "Registration failed", "")

\* handleLogin: the response to a Login that returned err
handleLogin(err) ==
  IF err = NoErr THEN [status |-> 200, error |-> "", message |-> "Login successful"]
  ELSE IF err = ErrInvalidCredentials THEN ErrorResponse(401, "Invalid credentials", "")
  ELSE IF ErrContains(err, "email is required") \/ ErrContains(err, "password is required")
  THEN ErrorResponse(400, "Missing required fields", "")
  ELSE ErrorResponse(500, "Login failed", "")

\* Register, entry: validateRegistrationRequest
RegisterCall(p, req) ==
  /\ th[p].pc = "idle"
  /\ StartCall
  /\ Len(uheap) + PendingUsers < MaxUserObjs
  /\ Len(sheap) + PendingSessions < MaxSessObjs
  /\ IF validateRegistrationRequest(req) # NoErr
     THEN Return(p, req, Result("register", validateRegistrationRequest(req), 0, 0))
     ELSE Enter(p, "reg_getByEmail", req)
  /\ UNCHANGED <<now, registrations, userVars, sessVars, histVars>>

\* Register: s.repos.Users.GetByEmail(req.Email)
RegGetByEmail(p) ==
  /\ th[p].pc = "reg_getByEmail"
  /\ \E o \in UsersGetByEmail(CS, th[p].req.Email) :
       /\ SetCS(o.cs)
       /\ IF o.err = NoErr
          THEN Return(p, th[p].req, Result("register", ErrUserAlreadyExists, 0, 0))
          ELSE Goto(p, "reg_getByUsername", 0)
  /\ UNCHANGED <<now, registrations, sessVars, histVars, calls>>

\* Register: s.repos.Users.GetByUsername(req.Username)
RegGetByUsername(p) ==
  /\ th[p].pc = "reg_getByUsername"
  /\ \E o \in UsersGetByUsername(CS, th[p].req.Username) :
       /\ SetCS(o.cs)
       /\ IF o.err = NoErr
          THEN Return(p, th[p].req, Result("register", ErrUserAlreadyExists, 0, 0))
          ELSE Goto(p, "reg_create", 0)
  /\ UNCHANGED <<now, registrations, sessVars, histVars, calls>>

\* Register: hashPassword, build the User, s.repos.Users.Create(user).  A User
\* that Create rejects is garbage when Register returns: it gets no address.
RegCreate(p) ==
  /\ th[p].pc = "reg_create"
  /\ \E salt \in Salts :
       LET user == NewUser(th[p].req, hashPassword(th[p].req.Password, salt))
           cs0 == AllocUser(CS, user)
           a == Len(cs0.uheap)
       IN  \E o \in UsersCreate(cs0, a, now) :
             IF o.err # NoErr
             THEN /\ Return(p, th[p].req, Result("register", Wrap("failed to create user", o.err), 0, 0))
                  /\ UNCHANGED userVars
             ELSE /\ SetCS(o.cs)
                  /\ Goto(p, "reg_updateProfile", a)
  /\ UNCHANGED <<now, registrations, sessVars, histVars, calls>>

\* Register: user.Profile.UserID = user.ID; s.repos.Users.UpdateProfile(&user.Profile)
RegUpdateProfile(p) ==
  /\ th[p].pc = "reg_updateProfile"
  /\ LET a == th[p].a
         cs1 == [CS EXCEPT !.uheap[a].Profile.UserID = uheap[a].ID]
         o == UsersUpdateProfile(cs1, FieldPtr(a))
     IN  /\ SetCS(o.cs)
         /\ IF o.err # NoErr
            THEN Return(p, th[p].req, Result("register", Wrap("failed to update profile", o.err), 0, 0))
            ELSE Goto(p, "reg_createSession", th[p].a)
  /\ UNCHANGED <<now, registrations, sessVars, histVars, calls>>

\* models.NewSession(user.ID, ...) and s.repos.Sessions.Create(session), the
\* tail of Register and of Login: [err, ss, sa].  A Session that is not stored
\* is garbage when the call returns: it gets no address.
CreateSession(ss, userID, t) ==
  LET sa == Len(ss.sheap) + 1
      ns == NewSession(userID, ClientIP, ClientAgent, generateSecureToken(sa), t)
  IN  IF ns.err # NoErr
      THEN [err |-> Wrap("failed to create session", ns.err), ss |-> ss, sa |-> 0]
      ELSE LET o == SessionsCreate(AllocSession(ss, ns.session[1]), sa, t) IN
           IF o.err # NoErr
           THEN [err |-> Wrap("failed to save session", o.err), ss |-> ss, sa |-> 0]
           ELSE [err |-> NoErr, ss |-> o.ss, sa |-> sa]

\* Register: create the session and return
RegCreateSession(p) ==
  /\ th[p].pc = "reg_createSession"
  /\ LET o == CreateSession(SS, uheap[th[p].a].ID, now) IN
       /\ SetSS(o.ss)
       /\ IF o.err # NoErr
          THEN /\ Return(p, th[p].req, Result("register", o.err, 0, 0))
               /\ UNCHANGED accepted
          ELSE /\ Return(p, th[p].req, Result("register", NoErr, th[p].a, o.sa))
               /\ accepted' = accepted \cup
                    {[Email |-> th[p].req.Email, Password |-> th[p].req.Password, a |-> th[p].a]}
  /\ UNCHANGED <<now, registrations, userVars, loggedOut, sawExpired, calls>>

\* Login, entry: validateLoginRequest
LoginCall(p, req) ==
  /\ th[p].pc = "idle"
  /\ StartCall
  /\ Len(sheap) + PendingSessions < MaxSessObjs
  /\ IF validateLoginRequest(req) # NoErr
     THEN Return(p, req, Result("login", validateLoginRequest(req), 0, 0))
     ELSE Enter(p, "login_getByEmail", req)
  /\ UNCHANGED <<now, registrations, userVars, sessVars, histVars>>

\* Login that does not look at the password
LoginCheck_AnyPassword(o, password) ==
  IF o.err # NoErr THEN ErrInvalidCredentials ELSE NoErr

\* Login that hands the repository's error to the caller
LoginCheck_Leak(o, password) ==
  IF o.err # NoErr THEN o.err
  ELSE IF ~verifyPassword(password, o.cs.uheap[o.a].PasswordHash) THEN ErrInvalidCredentials
  ELSE NoErr

\* Login, lines 126-134: the error after GetByEmail gave o, NoErr to go on
LoginCheck(o, password) ==
  IF o.err # NoErr THEN ErrInvalidCredentials
  ELSE IF ~verifyPassword(password, o.cs.uheap[o.a].PasswordHash) THEN ErrInvalidCredentials
  ELSE NoErr

\* Login: s.repos.Users.GetByEmail(req.Email) and verifyPassword
LoginGetByEmail(p) ==
  /\ th[p].pc = "login_getByEmail"
  /\ \E o \in UsersGetByEmail(CS, th[p].req.Email) :
       /\ SetCS(o.cs)
       /\ IF LoginCheck(o, th[p].req.Password) # NoErr
          THEN Return(p, th[p].req, Result("login", LoginCheck(o, th[p].req.Password), 0, 0))
          ELSE Goto(p, "login_createSession", o.a)
  /\ UNCHANGED <<now, registrations, sessVars, histVars, calls>>

\* Login: create the session and return
LoginCreateSession(p) ==
  /\ th[p].pc = "login_createSession"
  /\ LET o == CreateSession(SS, uheap[th[p].a].ID, now) IN
       /\ SetSS(o.ss)
       /\ IF o.err # NoErr
          THEN Return(p, th[p].req, Result("login", o.err, 0, 0))
          ELSE Return(p, th[p].req, Result("login", NoErr, th[p].a, o.sa))
  /\ UNCHANGED <<now, registrations, userVars, histVars, calls>>

\* does the token resolve to an account right now?
Resolves(token) ==
  /\ token # ""
  /\ SessionsGetByToken(SS, token, now).err = NoErr
  /\ sheap[sessions[token]].UserID \in DOMAIN users

\* Logout(sessionToken)
Logout(p, token) ==
  /\ th[p].pc = "idle"
  /\ StartCall
  /\ IF token = ""
     THEN /\ Return(p, token, Result("logout", NoErr, 0, 0))
          /\ UNCHANGED sessVars
     ELSE LET o == SessionsDeleteByToken(SS, token) IN
          /\ SetSS(o.ss)
          /\ Return(p, token, Result("logout", o.err, 0, 0))
  /\ loggedOut' = IF Resolves(token) THEN loggedOut \cup {token} ELSE loggedOut
  /\ UNCHANGED <<now, registrations, userVars, sawExpired, accepted>>

\* GetUserFromSession(sessionToken), up to s.repos.Sessions.GetByToken
ResolveCall(p, token) ==
  /\ th[p].pc = "idle"
  /\ StartCall
  /\ IF token = ""
     THEN /\ Return(p, token, Result("resolve", ErrSessionNotFound, 0, 0))
          /\ UNCHANGED sawExpired
     ELSE LET o == SessionsGetByToken(SS, token, now) IN
          /\ IF o.err # NoErr
             THEN Return(p, token, Result("resolve", o.err, 0, 0))
             ELSE th' = [th EXCEPT ![p] = InCall("resolve_getByID", token, o.a)] /\ ret' = NoReturn
          /\ sawExpired' = IF o.err = ErrSessionExpired THEN sawExpired \cup {sessions[token]}
                           ELSE sawExpired
  /\ UNCHANGED <<now, registrations, userVars, sessVars, loggedOut, accepted>>

\* GetUserFromSession: s.repos.Users.GetByID(session.UserID)
ResolveGetByID(p) ==
  /\ th[p].pc = "resolve_getByID"
  /\ LET o == UsersGetByID(CS, sheap[th[p].a].UserID) IN
       /\ SetCS(o.cs)
       /\ Return(p, th[p].req, Result("resolve", o.err, o.a, 0))
  /\ UNCHANGED <<now, registrations, sessVars, histVars, calls>>

\* the sweep: s.repos.Sessions.DeleteExpired()
Sweep ==
  /\ SetSS(SessionsDeleteExpired(SS, now).ss)
  /\ ret' = NoReturn
  /\ UNCHANGED <<now, registrations, userVars, th, histVars, calls>>

\* the clock advances
Tick ==
  /\ now < MaxTime
  /\ now' = now + 1
  /\ ret' = NoReturn
  /\ UNCHANGED <<registrations, userVars, sessVars, th, histVars, calls>>

\* ---------------------------------------------------------- specifications
Init ==
  /\ now = 0
  /\ uheap = <<>>
  /\ pheap = <<>>
  /\ users = EmptyMap
  /\ profiles = EmptyMap
  /\ sheap = <<>>
  /\ sessions = EmptyMap
  /\ registrations = {}
  /\ th = [p \in Procs |-> IdleThread]
  /\ ret = NoReturn
  /\ loggedOut = {}
  /\ sawExpired = {}
  /\ accepted = {}
  /\ calls = 0

\* ---------------------------------------------- direct calls of the stores
\* A caller of the repositories (a handler, a test, an administrative tool)
\* passes a pointer: to an object it has just built, which gets an address
\* only if the call stores it, or to an object that was stored before.
ReturnDirect(op, req, err, user, session) ==
  ret' = [req |-> <<req>>, op |-> op, err |-> err, user |-> user, session |-> session]

\* the users a caller builds
FreshUsers ==
  {[ID |-> id, Email |-> e, Username |-> u, PasswordHash |-> hashPassword(pw_1, "salt1"),
    Profile |-> EmptyProfile("")] :
      id \in {""} \cup DOMAIN users, e \in {e_A, e_c}, u \in {u_bob, u_amy}}
  \cup {[ID |-> "", Email |-> e_bad, Username |-> u_bob,
          PasswordHash |-> hashPassword(pw_1, "salt1"), Profile |-> EmptyProfile("")]}

\* Users.Create(user) with a user just built
UserCreateFresh ==
  /\ Len(uheap) < MaxUserObjs
  /\ \E u \in FreshUsers : \E o \in UsersCreate(AllocUser(CS, u), Len(uheap) + 1, now) :
       IF o.err # NoErr
       THEN ReturnDirect("users.create", u, o.err, 0, 0) /\ UNCHANGED userVars
       ELSE ReturnDirect("users.create", u, NoErr, Len(uheap) + 1, 0) /\ SetCS(o.cs)
  /\ StartCall
  /\ UNCHANGED <<now, registrations, sessVars, th, histVars>>

\* Users.Create(user) with a user that was stored before
UserCreateHeld ==
  /\ \E a \in 1..Len(uheap) : \E o \in UsersCreate(CS, a, now) :
       ReturnDirect("users.create", uheap[a], o.err, a, 0) /\ SetCS(o.cs)
  /\ StartCall
  /\ UNCHANGED <<now, registrations, sessVars, th, histVars>>

\* Users.Update(user) with a user just built
UserUpdateFresh ==
  /\ Len(uheap) < MaxUserObjs
  /\ \E u \in FreshUsers :
       LET o == UsersUpdate(AllocUser(CS, u), Len(uheap) + 1, now) IN
       IF o.err # NoErr
       THEN ReturnDirect("users.update", u, o.err, 0, 0) /\ UNCHANGED userVars
       ELSE ReturnDirect("users.update", u, NoErr, Len(uheap) + 1, 0) /\ SetCS(o.cs)
  /\ StartCall
  /\ UNCHANGED <<now, registrations, sessVars, th, histVars>>

\* Users.Update(user) with a user that was stored before, after the caller
\* has set user.Email (to the value it had, or to another one)
UserUpdateHeld ==
  /\ \E a \in 1..Len(uheap) : \E e \in {uheap[a].Email, e_A, e_c} :
       LET cs1 == [CS EXCEPT !.uheap[a].Email = e]
           o == UsersUpdate(cs1, a, now)
       IN  ReturnDirect("users.update", cs1.uheap[a], o.err, a, 0) /\ SetCS(o.cs)
  /\ StartCall
  /\ UNCHANGED <<now, registrations, sessVars, th, histVars>>

\* Users.Delete(id)
UserDelete ==
  /\ \E id \in {"nobody"} \cup DOMAIN users :
       LET o == UsersDelete(CS, id) IN
       ReturnDirect("users.delete", id, o.err, 0, 0) /\ SetCS(o.cs)
  /\ StartCall
  /\ UNCHANGED <<now, registrations, sessVars, th, histVars>>

\* Users.UpdateProfile(&user.Profile) after user.Profile.FirstName = name, for
\* a user the caller holds (the handlers' and the tests' way of calling it)
NameInputs == {n_al, <<" ">> \o n_li, n_long}
UserUpdateProfile ==
  /\ \E a \in 1..Len(uheap) : \E name \in NameInputs :
       LET cs1 == [CS EXCEPT !.uheap[a].Profile.FirstName = name]
           o == UsersUpdateProfile(cs1, FieldPtr(a))
       IN  ReturnDirect("users.updateProfile", cs1.uheap[a].Profile, o.err, a, 0) /\ SetCS(o.cs)
  /\ StartCall
  /\ UNCHANGED <<now, registrations, sessVars, th, histVars>>

\* Users.GetByID / GetByEmail / GetByUsername
UserGet ==
  /\ \/ \E id \in {"nobody"} \cup DOMAIN users :
          LET o == UsersGetByID(CS, id) IN
          ReturnDirect("users.getByID", id, o.err, o.a, 0) /\ SetCS(o.cs)
     \/ \E e \in {e_a, e_A, e_c} : \E o \in UsersGetByEmail(CS, e) :
          ReturnDirect("users.getByEmail", e, o.err, o.a, 0) /\ SetCS(o.cs)
     \/ \E u \in {u_bob, u_amy} : \E o \in UsersGetByUsername(CS, u) :
          ReturnDirect("users.getByUsername", u, o.err, o.a, 0) /\ SetCS(o.cs)
  /\ UNCHANGED <<now, registrations, sessVars, th, histVars, calls>>

\* the account ids sessions are made for when no account is involved
SessionOwners == {generateID("u", 1), generateID("u", 2)}

\* the sessions a caller builds: NewSession's, or one with a token it chose
FreshSessions ==
  {NewSession(uid, ClientIP, ClientAgent, generateSecureToken(Len(sheap) + 1), now).session[1] :
      uid \in SessionOwners}
  \cup {[ID |-> "", UserID |-> x[1], Token |-> x[2], ExpiresAt |-> now + DefaultSessionDuration,
         CreatedAt |-> now, IPAddress |-> ClientIP, UserAgent |-> ClientAgent] :
          x \in {<<"", "unknown">>, <<generateID("u", 1), "">>}
                 \cup {<<generateID("u", 1), tok>> : tok \in IssuedTokens}}

\* Sessions.Create(session) with a session just built
SessCreateFresh ==
  /\ Len(sheap) < MaxSessObjs
  /\ \E s \in FreshSessions :
       LET o == SessionsCreate(AllocSession(SS, s), Len(sheap) + 1, now) IN
       IF o.err # NoErr
       THEN ReturnDirect("sessions.create", s, o.err, 0, 0) /\ UNCHANGED sessVars
       ELSE ReturnDirect("sessions.create", s, NoErr, 0, Len(sheap) + 1) /\ SetSS(o.ss)
  /\ StartCall
  /\ UNCHANGED <<now, registrations, userVars, th, histVars>>

\* Sessions.Create(session) with a session that was stored before
SessCreateHeld ==
  /\ \E a \in 1..Len(sheap) :
       LET o == SessionsCreate(SS, a, now) IN
       ReturnDirect("sessions.create", sheap[a], o.err, 0, a) /\ SetSS(o.ss)
  /\ StartCall
  /\ UNCHANGED <<now, registrations, userVars, th, histVars>>

\* Sessions.Update(session) with a session that was stored before
SessUpdate ==
  /\ \E a \in 1..Len(sheap) :
       LET o == SessionsUpdate(SS, a, now) IN
       ReturnDirect("sessions.update", sheap[a], o.err, 0, a) /\ SetSS(o.ss)
  /\ StartCall
  /\ UNCHANGED <<now, registrations, userVars, th, histVars>>

\* session.Extend(duration) / session.ExtendDefault() on a session the caller
\* holds: Create, Login and Register hand out the pointer that is stored
ExtendDurations == {DefaultSessionDuration, 2 * DefaultSessionDuration}
SessExtend ==
  /\ \E a \in 1..Len(sheap) : \E d \in ExtendDurations :
       /\ sheap' = [sheap EXCEPT ![a] =
                      IF d = DefaultSessionDuration THEN ExtendDefault(sheap[a], now)
                      ELSE Extend(sheap[a], d, now)]
       /\ ReturnDirect("session.extend", sheap[a].Token, NoErr, 0, a)
  /\ StartCall
  /\ UNCHANGED <<now, registrations, userVars, sessions, th, histVars>>

\* Sessions.GetByToken(token)
SessGetByToken ==
  /\ \E token \in Tokens :
       LET o == SessionsGetByToken(SS, token, now) IN
       /\ ReturnDirect("sessions.getByToken", token, o.err, 0, o.a)
       /\ sawExpired' = IF o.err = ErrSessionExpired THEN sawExpired \cup {sessions[token]}
                        ELSE sawExpired
  /\ UNCHANGED <<now, registrations, userVars, sessVars, th, loggedOut, accepted, calls>>

\* Sessions.GetByUserID(userID): the call returns the sessions as result
SessGetByUserID ==
  /\ \E uid \in SessionOwners \cup {"unknown"} :
       ret' = [req |-> <<uid>>, op |-> "sessions.getByUserID", err |-> NoErr, user |-> 0,
               session |-> 0, result |-> SessionsGetByUserID(SS, uid, now)]
  /\ UNCHANGED <<now, registrations, userVars, sessVars, th, histVars, calls>>

\* Sessions.DeleteByToken(token)
SessDeleteByToken ==
  /\ \E token \in Tokens :
       LET o == SessionsDeleteByToken(SS, token) IN
       ReturnDirect("sessions.deleteByToken", token, o.err, 0, 0) /\ SetSS(o.ss)
  /\ StartCall
  /\ UNCHANGED <<now, registrations, userVars, th, histVars>>

\* Sessions.Delete(id)
SessDelete ==
  /\ \E id \in {"nothing"} \cup {sheap[a].ID : a \in 1..Len(sheap)} :
       \E o \in SessionsDelete(SS, id) :
          ReturnDirect("sessions.delete", id, o.err, 0, 0) /\ SetSS(o.ss)
  /\ StartCall
  /\ UNCHANGED <<now, registrations, userVars, th, histVars>>

\* Sessions.DeleteByUserID(userID)
SessDeleteByUserID ==
  /\ \E uid \in SessionOwners :
       LET o == SessionsDeleteByUserID(SS, uid) IN
       ReturnDirect("sessions.deleteByUserID", uid, o.err, 0, 0) /\ SetSS(o.ss)
  /\ StartCall
  /\ UNCHANGED <<now, registrations, userVars, th, histVars>>

\* the orchestrator's calls, the sweep and the clock
\* SpecAuth follows two caller threads; NProcs threads race in SpecRace.
AuthProcs == {1, 2}
NextAuth ==
  \/ \E p \in AuthProcs : \E req \in RegistrationRequests : RegisterCall(p, req)
  \/ \E p \in AuthProcs : RegGetByEmail(p)
  \/ \E p \in AuthProcs : RegGetByUsername(p)
  \/ \E p \in AuthProcs : RegCreate(p)
  \/ \E p \in AuthProcs : RegUpdateProfile(p)
  \/ \E p \in AuthProcs : RegCreateSession(p)
  \/ \E p \in AuthProcs : \E req \in LoginRequests : LoginCall(p, req)
  \/ \E p \in AuthProcs : LoginGetByEmail(p)
  \/ \E p \in AuthProcs : LoginCreateSession(p)
  \/ \E p \in AuthProcs : \E token \in Tokens : Logout(p, token)
  \/ \E p \in AuthProcs : \E token \in Tokens : ResolveCall(p, token)
  \/ \E p \in AuthProcs : ResolveGetByID(p)
  \/ Sweep
  \/ Tick

SpecAuth == Init /\ [][NextAuth]_vars

\* NProcs Register calls that run concurrently, all with the same address
\* (in either spelling), each past validateRegistrationRequest
RaceRequests ==
  {RegistrationRequest(e, u, pw_1, pw_1) : e \in {e_a, e_A}, u \in {u_bob, u_amy}}
InitRace ==
  /\ now = 0
  /\ uheap = <<>>
  /\ pheap = <<>>
  /\ users = EmptyMap
  /\ profiles = EmptyMap
  /\ sheap = <<>>
  /\ sessions = EmptyMap
  /\ registrations = {}
  /\ th \in [Procs -> {InCall("reg_getByEmail", req, 0) : req \in RaceRequests}]
  /\ ret = NoReturn
  /\ loggedOut = {}
  /\ sawExpired = {}
  /\ accepted = {}
  /\ calls = 0
NextRace ==
  \/ \E p \in Procs : RegGetByEmail(p)
  \/ \E p \in Procs : RegGetByUsername(p)
  \/ \E p \in Procs : RegCreate(p)
  \/ \E p \in Procs : RegUpdateProfile(p)
  \/ \E p \in Procs : RegCreateSession(p)
SpecRace == InitRace /\ [][NextRace]_vars

\* the Credential Store alone, called directly
NextStore ==
  \/ UserCreateFresh
  \/ UserCreateHeld
  \/ UserUpdateFresh
  \/ UserUpdateHeld
  \/ UserDelete
  \/ UserUpdateProfile
  \/ UserGet
SpecStore == Init /\ [][NextStore]_vars

\* the Session Registry alone, called directly, and the clock
NextSess ==
  \/ SessCreateFresh
  \/ SessCreateHeld
  \/ SessUpdate
  \/ SessExtend
  \/ SessGetByToken
  \/ SessGetByUserID
  \/ SessDeleteByToken
  \/ SessDelete
  \/ SessDeleteByUserID
  \/ Sweep
  \/ Tick
SpecSess == Init /\ [][NextSess]_vars

\* the Password Hasher alone: hashPassword and verifyPassword on passwords,
\* salts and digests drawn from the sets below
Passwords == {pw_1, pw_2, pw_short}
HashSalts == {"salt1", "salt2"}
\* digests hashPassword makes, and digests made with other cost parameters
GoodDigests ==
  {hashPassword(pw, salt) : pw \in Passwords, salt \in HashSalts}
  \cup {<<"", "argon2id", "v=19", FormatParams(1024, 2, 1), B64Encode(salt),
          B64Encode(IDKey(pw, salt, 2, 1024, 1, keyLength))>> :
            pw \in Passwords, salt \in HashSalts}
\* a digest spoilt in one place
Spoilt(d) ==
  {SubSeq(d, 1, 5), d \o <<"x">>, <<>>,
   [d EXCEPT ![2] = "argon2i"],
   [d EXCEPT ![3] = "v=16"],
   [d EXCEPT ![4].ok = FALSE],
   [d EXCEPT ![4].t = 0],
   [d EXCEPT ![4].p = 0],
   [d EXCEPT ![4].p = 256],
   [d EXCEPT ![5].ok = FALSE],
   [d EXCEPT ![6].ok = FALSE]}
Digests == GoodDigests \cup UNION {Spoilt(d) : d \in GoodDigests}

HashReturn(op, req, result) ==
  ret' = [req |-> req, op |-> op, err |-> NoErr, user |-> 0, session |-> 0, result |-> result]

HashCall ==
  /\ \E pw \in Passwords : \E salt \in HashSalts :
       HashReturn("hashPassword", <<pw, salt>>, hashPassword(pw, salt))
  /\ UNCHANGED <<now, registrations, userVars, sessVars, th, histVars, calls>>

VerifyCall ==
  /\ \E pw \in Passwords : \E d \in Digests :
       HashReturn("verifyPassword", <<pw, d>>, verifyPasswordRun(pw, d))
  /\ UNCHANGED <<now, registrations, userVars, sessVars, th, histVars, calls>>

NextHash ==
  \/ HashCall
  \/ VerifyCall
SpecHash == Init /\ [][NextHash]_vars

\* --------------------------------------------------------------- handlers
\* An *http.Request as the handlers read it: [cookie, authorization], the
\* session_token cookie, which may be missing, and the Authorization header,
\* scheme + " " + credentials, or "" when it is missing.
Cookie(v) == [present |-> TRUE, value |-> v]
Authorization(scheme, credentials) == [scheme |-> scheme, credentials |-> credentials]

\* the requests a client sends: each transport missing, empty, or carrying a
\* token that was never issued or one that was; a header of another scheme
Cookies == {[present |-> FALSE, value |-> ""]} \cup {Cookie(tk) : tk \in Tokens}
AuthorizationHeaders ==
  {Authorization("", "")} \cup {Authorization("Bearer", tk) : tk \in Tokens}
  \cup {Authorization("Basic", tk) : tk \in IssuedTokens}
Requests == {[cookie |-> c, authorization |-> h] : c \in Cookies, h \in AuthorizationHeaders}

\* GetSessionFromRequest(r): r.Cookie succeeds when the cookie is there,
\* whatever its value; strings.HasPrefix(auth, "Bearer ") / TrimPrefix
GetSessionFromRequest(r) ==
  IF r.cookie.present THEN r.cookie.value
  ELSE IF r.authorization.scheme = "Bearer" THEN r.authorization.credentials
  ELSE ""

\* http.ErrNoCookie
ErrNoCookie == [id |-> "http.ErrNoCookie", msg |-> <<"http: named cookie not present">>]

\* Server.getAuthenticatedUser(r): [err, a, cs]
getAuthenticatedUser(cs, ss, r, t) ==
  IF GetSessionFromRequest(r) = "" THEN [err |-> ErrNoCookie, a |-> 0, cs |-> cs]
  ELSE GetUserFromSession(cs, ss, GetSessionFromRequest(r), t)

\* What a handler writes: the status, the text or the template of the body,
\* the Location header, and the values the template is rendered with.
HttpError(error, code) == [status |-> code, body |-> error, location |-> "", data |-> <<>>]
Redirect(url, code) == [status |-> code, body |-> "", location |-> url, data |-> <<>>]
Render(template, data) == [status |-> 200, body |-> template, location |-> "", data |-> data]

\* a handler that answers a failed getAuthenticatedUser with the error's text
handleProfileEditFirstName_ErrText(cs, ss, r, t) ==
  LET o == getAuthenticatedUser(cs, ss, r, t) IN
  IF o.err # NoErr
  THEN [response |-> HttpError(o.err.msg[1], 401), err |-> o.err, a |-> 0, cs |-> o.cs, ss |-> ss]
  ELSE [response |-> Render("FirstNameEditForm", o.cs.uheap[o.a].Profile.FirstName),
        err |-> NoErr, a |-> o.a, cs |-> o.cs, ss |-> ss]

\* handleProfileEditFirstName, a GET: [response, err, a, cs, ss], err and a
\* being what the resolver gave.  The other handlers behind
\* getAuthenticatedUser answer its error in the same way.
handleProfileEditFirstName(cs, ss, r, t) ==
  LET o == getAuthenticatedUser(cs, ss, r, t) IN
  IF o.err # NoErr
  THEN [response |-> HttpError("Unauthorized", 401), err |-> o.err, a |-> 0, cs |-> o.cs, ss |-> ss]
  ELSE [response |-> Render("FirstNameEditForm", o.cs.uheap[o.a].Profile.FirstName),
        err |-> NoErr, a |-> o.a, cs |-> o.cs, ss |-> ss]

\* handleDashboard, a GET: [response, err, a, cs, ss]
handleDashboard(cs, ss, r, t) ==
  IF GetSessionFromRequest(r) = ""
  THEN [response |-> Redirect("/login", 303), err |-> ErrNoCookie, a |-> 0, cs |-> cs, ss |-> ss]
  ELSE LET o == GetUserFromSession(cs, ss, GetSessionFromRequest(r), t) IN
       IF o.err # NoErr
       THEN [response |-> Redirect("/login", 303), err |-> o.err, a |-> 0, cs |-> o.cs, ss |-> ss]
       ELSE [response |-> Render("DashboardPage", <<o.cs.uheap[o.a].ID>>),
             err |-> NoErr, a |-> o.a, cs |-> o.cs, ss |-> ss]

\* clearSessionCookie(w): the Set-Cookie header that empties session_token
clearSessionCookie == <<"session_token=; Max-Age=-1">>

\* Service.Logout(token) as the logout handlers call it: DeleteByToken, not
\* called for the empty token
LogoutRun(ss, token) ==
  IF token = "" THEN [err |-> NoErr, ss |-> ss] ELSE SessionsDeleteByToken(ss, token)

\* a handleLogout that answers the error of Logout
handleLogout_FailVisible(cs, ss, r, t) ==
  LET o == LogoutRun(ss, GetSessionFromRequest(r)) IN
  [response |-> IF o.err # NoErr THEN HttpError("Logout failed", 500)
                ELSE [status |-> 200, body |-> "Logout successful", location |-> "",
                      data |-> clearSessionCookie],
   err |-> o.err, a |-> 0, cs |-> cs, ss |-> o.ss]

\* handleLogout, a POST: [response, err, a, cs, ss]; the error of Logout is
\* dropped and the response clears the cookie
handleLogout(cs, ss, r, t) ==
  LET o == LogoutRun(ss, GetSessionFromRequest(r)) IN
  [response |-> [status |-> 200, body |-> "Logout successful", location |-> "",
                 data |-> clearSessionCookie],
   err |-> o.err, a |-> 0, cs |-> cs, ss |-> o.ss]

\* handleLogoutForm, a POST, hx saying whether the HX-Request header is
\* "true": the error of Logout is dropped, the cookie is cleared, and the
\* client is sent to /login, by an HX-Redirect header under 200 or by a
\* Location header under 303
handleLogoutForm(cs, ss, r, hx, t) ==
  LET o == LogoutRun(ss, GetSessionFromRequest(r)) IN
  [response |-> [status |-> IF hx THEN 200 ELSE 303, body |-> "", location |-> "/login",
                 data |-> clearSessionCookie],
   err |-> o.err, a |-> 0, cs |-> cs, ss |-> o.ss]

\* setupRoutes: the handler of a path, run on a request
Paths == {"/dashboard/profile/edit/first-name", "/dashboard", "/api/auth/logout"}
ServeHTTP(path, cs, ss, r, t) ==
  IF path = "/dashboard/profile/edit/first-name" THEN handleProfileEditFirstName(cs, ss, r, t)
  ELSE IF path = "/dashboard" THEN handleDashboard(cs, ss, r, t)
  ELSE handleLogout(cs, ss, r, t)

\* the server answers request r to path: the handler runs while no other does
Serve(path) ==
  /\ StartCall
  /\ \E r \in Requests :
       LET o == ServeHTTP(path, CS, SS, r, now) IN
       /\ SetCS(o.cs)
       /\ SetSS(o.ss)
       /\ ret' = [req |-> <<r>>, op |-> path, err |-> o.err, user |-> o.a, session |-> 0,
                  response |-> o.response]
  /\ UNCHANGED <<now, registrations, th, histVars>>

\* the server answers a request to /auth/logout
ServeLogoutForm ==
  /\ StartCall
  /\ \E r \in Requests : \E hx \in BOOLEAN :
       LET o == handleLogoutForm(CS, SS, r, hx, now) IN
       /\ SetCS(o.cs)
       /\ SetSS(o.ss)
       /\ ret' = [req |-> <<r>>, op |-> "/auth/logout", err |-> o.err, user |-> 0, session |-> 0,
                  response |-> o.response]
  /\ UNCHANGED <<now, registrations, th, histVars>>

\* the account the handlers' clients registered: Users.Create, as Register calls it
HttpRegistration == RegistrationRequest(e_A, u_bob, pw_1, pw_1)
StoreAccount ==
  /\ StartCall
  /\ Len(uheap) < MaxUserObjs
  /\ \E o \in UsersCreate(AllocUser(CS, NewUser(HttpRegistration, hashPassword(pw_1, "salt1"))),
                          Len(uheap) + 1, now) :
       IF o.err # NoErr
       THEN ReturnDirect("users.create", HttpRegistration, o.err, 0, 0) /\ UNCHANGED userVars
       ELSE ReturnDirect("users.create", HttpRegistration, NoErr, Len(uheap) + 1, 0) /\ SetCS(o.cs)
  /\ UNCHANGED <<now, registrations, sessVars, th, histVars>>

\* a session of that account: NewSession and Sessions.Create, as Register and Login call them
OpenSession ==
  /\ StartCall
  /\ Len(sheap) < MaxSessObjs
  /\ LET o == CreateSession(SS, generateID("u", 1), now) IN
       /\ SetSS(o.ss)
       /\ ReturnDirect("sessions.create", generateID("u", 1), o.err, 0, o.sa)
  /\ UNCHANGED <<now, registrations, userVars, th, histVars>>

\* the handlers, one request at a time, over stores filled as above, and the clock
NextHttp ==
  \/ StoreAccount
  \/ OpenSession
  \/ Serve("/dashboard/profile/edit/first-name")
  \/ Serve("/dashboard")
  \/ Serve("/api/auth/logout")
  \/ ServeLogoutForm
  \/ Tick
SpecHttp == Init /\ [][NextHttp]_vars

\* Sessions.DeleteExpired(), called directly
SweepDirect ==
  /\ LET o == SessionsDeleteExpired(SS, now) IN
       SetSS(o.ss) /\ ReturnDirect("sessions.deleteExpired", "", o.err, 0, 0)
  /\ UNCHANGED <<now, registrations, userVars, th, histVars, calls>>

\* the sweep over a registry with sessions of a stored account, and the clock
NextSweep ==
  \/ StoreAccount
  \/ OpenSession
  \/ SessExtend
  \/ SweepDirect
  \/ Tick
SpecSweep == Init /\ [][NextSweep]_vars

\* GetUserFromSession(token), called directly and run without interruption
ResolveDirect ==
  /\ \E token \in Tokens :
       LET o == GetUserFromSession(CS, SS, token, now) IN
       SetCS(o.cs) /\ ReturnDirect("getUserFromSession", token, o.err, o.a, 0)
  /\ UNCHANGED <<now, registrations, sessVars, th, histVars, calls>>

\* Users.Delete(id), the administrative operation, for a stored account
DeleteDirect ==
  /\ \E id \in DOMAIN users :
       LET o == UsersDelete(CS, id) IN
       SetCS(o.cs) /\ ReturnDirect("users.delete", id, o.err, 0, 0)
  /\ UNCHANGED <<now, registrations, sessVars, th, histVars, calls>>

\* a session of a stored account: NewSession and Sessions.Create, as Register
\* and Login call them
IssueSession ==
  /\ StartCall
  /\ Len(sheap) < MaxSessObjs
  /\ \E id \in DOMAIN users :
       LET o == CreateSession(SS, id, now) IN
       SetSS(o.ss) /\ ReturnDirect("sessions.create", id, o.err, 0, o.sa)
  /\ UNCHANGED <<now, registrations, userVars, th, histVars>>

\* Service.Logout(token), called directly
LogoutDirect ==
  /\ \E token \in Tokens :
       LET o == LogoutRun(SS, token) IN
       SetSS(o.ss) /\ ReturnDirect("logout", token, o.err, 0, 0)
  /\ UNCHANGED <<now, registrations, userVars, th, histVars, calls>>

\* accounts that are created, deleted and created again from the object the
\* caller holds, sessions of an account, the resolver, logout and the clock
NextOwner ==
  \/ StoreAccount
  \/ IssueSession
  \/ UserCreateHeld
  \/ DeleteDirect
  \/ ResolveDirect
  \/ LogoutDirect
  \/ Tick
SpecOwner == Init /\ [][NextOwner]_vars

\* ------------------------------------------------------------ the locks
\* Each repository has one sync.RWMutex.  What a call does to the locks is a
\* sequence of instructions [do, store, mode]: do is "lock" or "unlock",
\* store is "users" or "sessions", mode is "R" (RLock) or "W" (Lock).
Acquire(store, mode) == [do |-> "lock", store |-> store, mode |-> mode]
Release(store, mode) == [do |-> "unlock", store |-> store, mode |-> mode]

\* a Create that calls GetByEmail of its own repository before it unlocks
UsersWrite_Reentrant ==
  <<Acquire("users", "W"), Acquire("users", "R"), Release("users", "R"), Release("users", "W")>>
\* MemoryUserRepository.Create / Update / Delete / UpdateProfile:
\* r.mutex.Lock(); defer r.mutex.Unlock(); no call to another method
UsersWrite == <<Acquire("users", "W"), Release("users", "W")>>
\* MemoryUserRepository.GetByID / GetByEmail / GetByUsername / GetProfile:
\* r.mutex.RLock(); defer r.mutex.RUnlock()
UsersRead == <<Acquire("users", "R"), Release("users", "R")>>
\* MemorySessionRepository.Create / Update / Delete* : Lock, defer Unlock
SessionsWrite == <<Acquire("sessions", "W"), Release("sessions", "W")>>
\* MemorySessionRepository.GetByToken / GetByUserID: RLock, defer RUnlock
SessionsRead == <<Acquire("sessions", "R"), Release("sessions", "R")>>

\* the repository methods a call runs, one after the other
LockCalls == {"register", "login", "logout", "resolve", "profile-update", "sweep"}
LockProgram(call) ==
  CASE call = "register" -> UsersRead \o UsersRead \o UsersWrite \o UsersWrite \o SessionsWrite
    [] call = "login" -> UsersRead \o SessionsWrite
    [] call = "logout" -> SessionsWrite
    [] call = "resolve" -> SessionsRead \o UsersRead
    [] call = "profile-update" -> SessionsRead \o UsersRead \o UsersWrite
    [] OTHER -> SessionsWrite

\* thread p is in a call of this section; th[p].req is the call and th[p].a
\* the instruction it executes next
InLocks(p) == th[p].pc \in {"lock_run", "lock_announced"}
\* thread p holds the lock of store in mode: it has executed more such
\* lock instructions than unlock instructions
Holds(p, store, mode) ==
  /\ InLocks(p)
  /\ LET done == SubSeq(LockProgram(th[p].req), 1, th[p].a - 1)
          n(do) == Cardinality({i \in DOMAIN done : done[i] = [do |-> do, store |-> store,
                                                                mode |-> mode]})
      IN  n("lock") > n("unlock")
\* thread p has called Lock on store and has not got it yet: RLock calls
\* made from now on wait
Announced(p, store) ==
  /\ th[p].pc = "lock_announced"
  /\ LockProgram(th[p].req)[th[p].a].store = store
HoldsAny(p) == \E store \in {"users", "sessions"} : \E mode \in {"R", "W"} : Holds(p, store, mode)

\* thread p can execute its next instruction.  RLock waits while a writer
\* holds the lock or has called Lock; Lock first takes its place among the
\* writers and then waits for the readers to leave; neither is reentrant.
CanStep(p) ==
  /\ InLocks(p)
  /\ th[p].a <= Len(LockProgram(th[p].req))
  /\ LET ins == LockProgram(th[p].req)[th[p].a] IN
       \/ ins.do = "unlock"
       \/ /\ ins.do = "lock" /\ ins.mode = "R"
          /\ \A q \in Procs : ~Holds(q, ins.store, "W") /\ ~Announced(q, ins.store)
       \/ /\ ins.do = "lock" /\ ins.mode = "W" /\ th[p].pc = "lock_run"
          /\ \A q \in Procs : ~Holds(q, ins.store, "W") /\ ~Announced(q, ins.store)
       \/ /\ ins.do = "lock" /\ ins.mode = "W" /\ th[p].pc = "lock_announced"
          /\ \A q \in Procs : ~Holds(q, ins.store, "R")

\* thread p starts a call; a call that fails before its first repository
\* method (validation, empty token) goes straight to its return
LockCall(p, call) ==
  /\ th[p].pc = "idle"
  /\ StartCall
  /\ \E a \in {1, Len(LockProgram(call)) + 1} :
       th' = [th EXCEPT ![p] = InCall("lock_run", call, a)]
  /\ ret' = NoReturn
  /\ UNCHANGED <<now, registrations, userVars, sessVars, histVars>>

\* thread p executes its next instruction; after the unlock that ends a
\* method the call goes on, or returns the method's error
LockStep(p) ==
  /\ CanStep(p)
  /\ LET prog == LockProgram(th[p].req)
         ins == prog[th[p].a]
     IN  IF ins.do = "lock" /\ ins.mode = "W" /\ th[p].pc = "lock_run"
         THEN th' = [th EXCEPT ![p].pc = "lock_announced"]
         ELSE IF ins.do = "lock"
         THEN th' = [th EXCEPT ![p].pc = "lock_run", ![p].a = th[p].a + 1]
         ELSE LET n(do) == Cardinality({i \in 1..th[p].a : prog[i].do = do}) IN
              \E a \in {th[p].a + 1} \cup (IF n("lock") = n("unlock") THEN {Len(prog) + 1} ELSE {}) :
                th' = [th EXCEPT ![p].a = a]
  /\ ret' = NoReturn
  /\ UNCHANGED <<now, registrations, userVars, sessVars, histVars, calls>>

\* the call of thread p returns
LockReturn(p) ==
  /\ th[p].pc = "lock_run"
  /\ th[p].a = Len(LockProgram(th[p].req)) + 1
  /\ th' = [th EXCEPT ![p] = IdleThread]
  /\ ret' = NoReturn
  /\ UNCHANGED <<now, registrations, userVars, sessVars, histVars, calls>>

\* NProcs threads that make the calls concurrently
NextLocks ==
  \/ \E p \in Procs : \E call \in LockCalls : LockCall(p, call)
  \/ \E p \in Procs : LockStep(p)
  \/ \E p \in Procs : LockReturn(p)
SpecLocks == Init /\ [][NextLocks]_vars
\* the scheduler runs every thread that can take a step
SpecLocksFair ==
  SpecLocks /\ \A p \in Procs : WF_vars(LockStep(p) \/ LockReturn(p))

\* ------------------------------------------------- one call at a time
\* crypto/rand fails: the error rand.Read returns
ErrRand == ErrorsNew("crypto/rand: read failed")
\* what a Register or Login returns: the error, the addresses of the User and
\* the Session (0 for nil), and the stores as the call leaves them
Outcome(err, a, sa, cs, ss) == [err |-> err, a |-> a, sa |-> sa, cs |-> cs, ss |-> ss]

\* NewSession and Sessions.Create when crypto/rand delivers rand more reads
\* and then fails: generateSecureToken reads first, generateID second
CreateSessionRand(ss, userID, t, rand) ==
  IF userID = "" \/ rand >= 2 THEN CreateSession(ss, userID, t)
  ELSE IF rand < 1 THEN [err |-> Wrap("failed to create session", ErrRand), ss |-> ss, sa |-> 0]
  ELSE [err |-> Wrap("failed to save session", ErrRand), ss |-> ss, sa |-> 0]

\* Register(req, ipAddress, userAgent) run while no other call runs: the
\* outcomes.  crypto/rand delivers rand reads and then fails; Register reads
\* the salt, the account id, the token and the session id, in this order.
RegisterRun(cs, ss, req, salt, t, rand) ==
  IF validateRegistrationRequest(req) # NoErr
  THEN {Outcome(validateRegistrationRequest(req), 0, 0, cs, ss)}
  ELSE UNION {
    IF e.err = NoErr THEN {Outcome(ErrUserAlreadyExists, 0, 0, e.cs, ss)}
    ELSE UNION {
      IF u.err = NoErr THEN {Outcome(ErrUserAlreadyExists, 0, 0, u.cs, ss)}
      ELSE IF rand < 1 THEN {Outcome(Wrap("failed to hash password", ErrRand), 0, 0, u.cs, ss)}
      ELSE
        LET cs0 == AllocUser(u.cs, NewUser(req, hashPassword(req.Password, salt)))
            a == Len(cs0.uheap)
        IN  UNION {
              IF c.err # NoErr THEN {Outcome(Wrap("failed to create user", c.err), 0, 0, u.cs, ss)}
              ELSE IF rand < 2 THEN {Outcome(Wrap("failed to create user", ErrRand), 0, 0, u.cs, ss)}
              ELSE
                LET cs1 == [c.cs EXCEPT !.uheap[a].Profile.UserID = c.cs.uheap[a].ID]
                    up == UsersUpdateProfile(cs1, FieldPtr(a))
                    cr == CreateSessionRand(ss, up.cs.uheap[a].ID, t, rand - 2)
                IN  IF up.err # NoErr
                    THEN {Outcome(Wrap("failed to update profile", up.err), 0, 0, up.cs, ss)}
                    ELSE IF cr.err # NoErr THEN {Outcome(cr.err, 0, 0, up.cs, ss)}
                    ELSE {Outcome(NoErr, a, cr.sa, up.cs, cr.ss)}
              : c \in UsersCreate(cs0, a, t)}
      : u \in UsersGetByUsername(e.cs, req.Username)}
    : e \in UsersGetByEmail(cs, req.Email)}

\* Login(req, ipAddress, userAgent) run while no other call runs: the outcomes
LoginRun(cs, ss, req, t, rand) ==
  IF validateLoginRequest(req) # NoErr THEN {Outcome(validateLoginRequest(req), 0, 0, cs, ss)}
  ELSE {
    IF LoginCheck(o, req.Password) # NoErr
    THEN Outcome(LoginCheck(o, req.Password), 0, 0, o.cs, ss)
    ELSE LET cr == CreateSessionRand(ss, o.cs.uheap[o.a].ID, t, rand) IN
         IF cr.err # NoErr THEN Outcome(cr.err, 0, 0, o.cs, ss)
         ELSE Outcome(NoErr, o.a, cr.sa, o.cs, cr.ss)
    : o \in UsersGetByEmail(cs, req.Email)}

\* the reads crypto/rand delivers before it fails; 4 are all a call asks for
RandReads == 0..4

\* the requests clients send one at a time: two that can succeed, and one for
\* each reason to refuse a request
SeqRegistrations ==
  {HttpRegistration, RegistrationRequest(e_a, u_amy, pw_1, pw_1),
   RegistrationRequest(<<>>, u_bob, pw_1, pw_1), RegistrationRequest(e_c, <<>>, pw_1, pw_1),
   RegistrationRequest(e_c, u_bob, <<>>, <<>>), RegistrationRequest(e_c, u_bob, pw_short, pw_short),
   RegistrationRequest(e_c, u_bob, pw_1, pw_2), RegistrationRequest(e_bad, u_bob, pw_1, pw_1),
   RegistrationRequest(e_c, <<"b", "!">>, pw_1, pw_1)}
SeqLogins ==
  {[Email |-> e_a, Password |-> pw_1], [Email |-> e_a, Password |-> pw_2],
   [Email |-> e_c, Password |-> pw_1], [Email |-> <<>>, Password |-> pw_1],
   [Email |-> e_a, Password |-> <<>>]}

\* a client sends one of reqs to handleRegister, crypto/rand delivering one of
\* rands reads: Register and the response
DoRegister(reqs, rands) ==
  /\ StartCall
  /\ Len(uheap) < MaxUserObjs
  /\ Len(sheap) < MaxSessObjs
  /\ \E req \in reqs :
     \E rand \in rands :
     \E o \in RegisterRun(CS, SS, req, "salt1", now, rand) :
       /\ SetCS(o.cs)
       /\ SetSS(o.ss)
       /\ ret' = [req |-> <<req>>, op |-> "register", err |-> o.err, user |-> o.a,
                  session |-> o.sa, response |-> handleRegister(o.err)]
  /\ UNCHANGED <<now, registrations, th, histVars>>

\* a client sends one of reqs to handleLogin, crypto/rand delivering one of
\* rands reads: Login and the response
DoLogin(reqs, rands) ==
  /\ StartCall
  /\ Len(sheap) < MaxSessObjs
  /\ \E req \in reqs :
     \E rand \in rands :
     \E o \in LoginRun(CS, SS, req, now, rand) :
       /\ SetCS(o.cs)
       /\ SetSS(o.ss)
       /\ ret' = [req |-> <<req>>, op |-> "login", err |-> o.err, user |-> o.a,
                  session |-> o.sa, response |-> handleLogin(o.err)]
  /\ UNCHANGED <<now, registrations, th, histVars>>

\* the handlers that read a form.  A request to them: the token in the cookie
\* or in the header, and the form values first_name and competition_id.
FormRequests(form) ==
  {[cookie |-> c, authorization |-> Authorization("", ""), form |-> form] : c \in Cookies}
  \cup {[cookie |-> [present |-> FALSE, value |-> ""], authorization |-> Authorization("Bearer", tk),
         form |-> form] : tk \in IssuedTokens}

\* models.NewRegistration(userID, competitionID, data)
NewRegistration(userID, competitionID) ==
  [UserID |-> userID, CompetitionID |-> competitionID, Status |-> "pending"]

\* handleProfileUpdateFirstName, a POST: [response, err, a, cs, ss, rs].  user
\* points to the stored User; the handler writes the new name into its Profile
\* before it validates.
handleProfileUpdateFirstName(cs, ss, rs, r, t) ==
  LET o == getAuthenticatedUser(cs, ss, r, t) IN
  IF o.err # NoErr
  THEN [response |-> HttpError("Unauthorized", 401), err |-> o.err, a |-> 0,
        cs |-> o.cs, ss |-> ss, rs |-> rs]
  ELSE
    LET firstName == TrimSpace(r.form.first_name)
        cs1 == [o.cs EXCEPT !.uheap[o.a].Profile.FirstName = firstName]
        cs2 == [cs1 EXCEPT !.uheap[o.a].Profile = ProfileSanitize(cs1.uheap[o.a].Profile)]
        up == UsersUpdateProfile(cs2, FieldPtr(o.a))
    IN  IF ProfileValidate(cs2.uheap[o.a].Profile) # NoErr
        THEN [response |-> Render("FirstNameEditForm", firstName),
              err |-> ProfileValidate(cs2.uheap[o.a].Profile), a |-> o.a,
              cs |-> cs2, ss |-> ss, rs |-> rs]
        ELSE IF up.err # NoErr
        THEN [response |-> HttpError("Failed to update profile", 500), err |-> up.err, a |-> o.a,
              cs |-> up.cs, ss |-> ss, rs |-> rs]
        ELSE [response |-> Render("FirstNameDisplay", firstName), err |-> NoErr, a |-> o.a,
              cs |-> up.cs, ss |-> ss, rs |-> rs]

\* handleCreateRegistration, a POST: [response, err, a, cs, ss, rs].  The
\* repository keeps what Create is given and GetByUserAndCompetition finds it.
handleCreateRegistration(cs, ss, rs, r, t) ==
  LET o == getAuthenticatedUser(cs, ss, r, t) IN
  IF o.err # NoErr
  THEN [response |-> HttpError("Unauthorized", 401), err |-> o.err, a |-> 0,
        cs |-> o.cs, ss |-> ss, rs |-> rs]
  ELSE
    LET competitionID == IF r.form.competition_id = "" THEN "compify-2024"
                         ELSE r.form.competition_id
        registration == NewRegistration(o.cs.uheap[o.a].ID, competitionID)
    IN  [response |-> Render("RegistrationSection", <<competitionID>>), err |-> NoErr, a |-> o.a,
         cs |-> o.cs, ss |-> ss, rs |-> rs \cup {registration}]

\* the form handlers of setupRoutes
FormPaths == {"/dashboard/profile/update/first-name", "/dashboard/registration/create"}
Forms(path) ==
  IF path = "/dashboard/profile/update/first-name"
  THEN {[first_name |-> f, competition_id |-> ""] : f \in NameInputs}
  ELSE {[first_name |-> <<>>, competition_id |-> c] : c \in {"", "compify-2025"}}
ServeFormHTTP(path, cs, ss, rs, r, t) ==
  IF path = "/dashboard/profile/update/first-name"
  THEN handleProfileUpdateFirstName(cs, ss, rs, r, t)
  ELSE handleCreateRegistration(cs, ss, rs, r, t)

\* the server answers a POST to path
ServeForm(path) ==
  /\ StartCall
  /\ \E form \in Forms(path) : \E r \in FormRequests(form) :
       LET o == ServeFormHTTP(path, CS, SS, registrations, r, now) IN
       /\ SetCS(o.cs)
       /\ SetSS(o.ss)
       /\ registrations' = o.rs
       /\ ret' = [req |-> <<r>>, op |-> path, err |-> o.err, user |-> o.a, session |-> 0,
                  response |-> o.response]
  /\ UNCHANGED <<now, th, histVars>>

\* clients that register and post forms, one call at a time, and the clock
NextDash ==
  \/ DoRegister({HttpRegistration, RegistrationRequest(e_a, u_amy, pw_1, pw_1)}, {4})
  \/ ServeForm("/dashboard/profile/update/first-name")
  \/ ServeForm("/dashboard/registration/create")
  \/ Tick
SpecDash == Init /\ [][NextDash]_vars

\* clients that register and log in, one call at a time, while crypto/rand may fail
NextSeq ==
  \/ DoRegister(SeqRegistrations, RandReads)
  \/ DoLogin(SeqLogins, 0..2)
  \/ Tick
SpecSeq == Init /\ [][NextSeq]_vars

\* NProcs threads that log in to one account while others do
LoginsRequests == {[Email |-> e_a, Password |-> pw_1], [Email |-> e_a, Password |-> pw_2]}
NextLogins ==
  \/ StoreAccount
  \/ \E p \in Procs : \E req \in LoginsRequests : LoginCall(p, req)
  \/ \E p \in Procs : LoginGetByEmail(p)
  \/ \E p \in Procs : LoginCreateSession(p)
  \/ Tick
SpecLogins == Init /\ [][NextLogins]_vars

\* everything together
Next == NextAuth \/ NextStore \/ NextSess \/ NextHash \/ NextHttp \/ NextDash \/ NextSeq \/ NextLogins
        \/ NextSweep \/ NextOwner \/ NextLocks
Spec == Init /\ [][Next]_vars


\* ------------------------------------------------------------------ claims

\* C1: when several Register calls with the same e-mail run concurrently,
\* every call that fails returns a duplicate error (a 409 of handleRegister),
\* and once all have returned exactly one has succeeded and the store holds
\* exactly one account, the one with that e-mail.
C1_OneRegistrationWins ==
  /\ (ret.op = "register" /\ ret.err # NoErr) => handleRegister(ret.err).status = 409
  /\ (\A p \in Procs : th[p].pc = "idle") =>
       /\ Cardinality(accepted) = 1
       /\ Cardinality(DOMAIN users) = 1
       /\ \A id \in DOMAIN users : uheap[users[id]].Email = e_a

\* all calls have returned and the last one lost the race inside Create
C1_Witness ==
  /\ \A p \in Procs : th[p].pc = "idle"
  /\ ret.op = "register"
  /\ ret.err = Wrap("failed to create user", ErrEmailExists)

\* C2: after any Create, Update, UpdateProfile or Delete no two stored
\* accounts share an e-mail and no two share a username.
C2_UniqueEmailAndUsername ==
  \A i, j \in DOMAIN users :
    i # j => /\ uheap[users[i]].Email # uheap[users[j]].Email
             /\ uheap[users[i]].Username # uheap[users[j]].Username

\* C3: once Logout(token) has run for a token that resolved, the registry has
\* no record of the token and GetByToken and GetUserFromSession called in any
\* later state return ErrSessionNotFound.
C3_LoggedOutStaysNotFound ==
  \A token \in loggedOut :
    /\ token \notin DOMAIN sessions
    /\ SessionsGetByToken(SS, token, now).err = ErrSessionNotFound
    /\ GetUserFromSession(CS, SS, token, now).err = ErrSessionNotFound

\* a resolve of a logged-out token has returned
C3_Witness ==
  /\ ret.op = "resolve"
  /\ ret.req[1] \in loggedOut
  /\ ret.err = ErrSessionNotFound

\* C4: Logout(token) returns no error whatever the token: empty, never issued,
\* already logged out, or live.
C4_LogoutNeverFails ==
  ret.op = "logout" => ret.err = NoErr

\* C5: DeleteByToken of a token the registry does not hold returns no error
\* and leaves the registry as it was.
C5_DeleteByTokenAbsentIsOk ==
  [][(ret'.op = "sessions.deleteByToken" /\ ret'.req[1] \notin DOMAIN sessions)
       => (ret'.err = NoErr /\ sessions' = sessions)]_vars

\* C6: a Login with a well-formed request that fails returns exactly
\* ErrInvalidCredentials and handleLogin answers 401 "Invalid credentials",
\* whether the e-mail matches no account or matches one whose password is
\* another; any two failing well-formed logins get the same error and the
\* same response.
C6_FailedLoginUniform ==
  /\ (ret.op = "login" /\ ret.err # NoErr /\ validateLoginRequest(ret.req[1]) = NoErr) =>
       /\ ret.err = ErrInvalidCredentials
       /\ handleLogin(ret.err) = ErrorResponse(401, "Invalid credentials", "")
  /\ \A r1, r2 \in LoginRequests :
       \A o1 \in UsersGetByEmail(CS, r1.Email) : \A o2 \in UsersGetByEmail(CS, r2.Email) :
         (/\ validateLoginRequest(r1) = NoErr /\ validateLoginRequest(r2) = NoErr
          /\ LoginCheck(o1, r1.Password) # NoErr /\ LoginCheck(o2, r2.Password) # NoErr)
         => /\ LoginCheck(o1, r1.Password) = LoginCheck(o2, r2.Password)
            /\ handleLogin(LoginCheck(o1, r1.Password)) = handleLogin(LoginCheck(o2, r2.Password))

\* a login with a registered e-mail and a wrong password has failed, and a
\* login with an e-mail no account has would fail in this state too
C6_Witness ==
  /\ ret.op = "login"
  /\ ret.err = ErrInvalidCredentials
  /\ \E id \in DOMAIN users : uheap[users[id]].Email = ret.req[1].Email
  /\ \E r \in LoginRequests :
       /\ validateLoginRequest(r) = NoErr
       /\ \A id \in DOMAIN users : uheap[users[id]].Email # r.Email

\* C7: a Login that looks the account up once Register has accepted the same
\* e-mail string and password passes the credential check (it goes on to
\* create the session); no account is deleted in between.
C7_LoginAfterRegister ==
  [][\A p \in AuthProcs :
       (/\ th[p].pc = "login_getByEmail"
        /\ th'[p].pc # "login_getByEmail"
        /\ \E r \in accepted : /\ r.Email = th[p].req.Email
                                /\ r.Password = th[p].req.Password)
       => th'[p].pc = "login_createSession"]_vars

\* C8: when Register returns success, the account has a non-empty ID, the
\* session's UserID is that ID and its ExpiresAt is CreatedAt plus
\* DefaultSessionDuration (7 days); in that state GetByEmail of the account's
\* e-mail returns the account, GetByToken of the session's token returns the
\* session and GetUserFromSession of the token returns the account.
C8_RegisterResult ==
  (ret.op = "register" /\ ret.err = NoErr) =>
    LET user == uheap[ret.user]
        session == sheap[ret.session]
    IN  /\ user.ID # ""
        /\ session.UserID = user.ID
        /\ session.ExpiresAt = session.CreatedAt + DefaultSessionDuration
        /\ session.CreatedAt = now
        /\ \A o \in UsersGetByEmail(CS, user.Email) : o.err = NoErr /\ o.a = ret.user
        /\ SessionsGetByToken(SS, session.Token, now) = [err |-> NoErr, a |-> ret.session]
        /\ GetUserFromSession(CS, SS, session.Token, now).err = NoErr
        /\ GetUserFromSession(CS, SS, session.Token, now).a = ret.user

\* Register has returned success for a request with an upper-case e-mail
C8_Witness ==
  /\ ret.op = "register"
  /\ ret.err = NoErr
  /\ ret.req[1].Email = e_A
  /\ sheap[ret.session].Token # ""

\* C9: a stored session whose ExpiresAt lies before the current time makes
\* GetByToken and GetUserFromSession return ErrSessionExpired and neither the
\* session nor the account; after a read has returned ErrSessionExpired the
\* record is still in the registry.
C9_ExpiredReadsFail ==
  /\ \A token \in DOMAIN sessions :
       now > sheap[sessions[token]].ExpiresAt =>
         /\ SessionsGetByToken(SS, token, now) = [err |-> ErrSessionExpired, a |-> 0]
         /\ GetUserFromSession(CS, SS, token, now).err = ErrSessionExpired
         /\ GetUserFromSession(CS, SS, token, now).a = 0
  /\ (ret.op = "resolve" /\ ret.err = ErrSessionExpired) =>
       /\ ret.req[1] \in DOMAIN sessions
       /\ ret.user = 0
       /\ ret.session = 0

\* GetUserFromSession has returned ErrSessionExpired for a stored session
C9_Witness ==
  /\ ret.op = "resolve"
  /\ ret.err = ErrSessionExpired
  /\ ret.req[1] \in DOMAIN sessions
  /\ now > sheap[sessions[ret.req[1]]].ExpiresAt

\* C10: a session that a read has reported as expired is never returned by a
\* later GetByToken, whatever Extend, ExtendDefault, Update, sweep or repeated
\* reads happen in between.
C10_ExpiredStaysExpired ==
  (ret.op = "sessions.getByToken" /\ ret.session \in sawExpired) => ret.err # NoErr

\* C11: a stored session is valid exactly while the current time is strictly
\* before its ExpiresAt: when a GetByToken of a stored token has returned,
\* it has succeeded iff now < ExpiresAt and returned ErrSessionExpired
\* otherwise, GetByUserID lists the session iff now < ExpiresAt, and
\* DeleteExpired keeps it iff now < ExpiresAt.
C11_ValidIffBeforeExpiry ==
  (ret.op = "sessions.getByToken" /\ ret.req[1] \in DOMAIN sessions) =>
    LET token == ret.req[1]
        s == sheap[sessions[token]]
    IN  /\ (ret.err = NoErr) <=> (now < s.ExpiresAt)
        /\ (ret.err = ErrSessionExpired) <=> (now >= s.ExpiresAt)
        /\ (sessions[token] \in SessionsGetByUserID(SS, s.UserID, now)) <=> (now < s.ExpiresAt)
        /\ (token \in DOMAIN SessionsDeleteExpired(SS, now).ss.sessions) <=> (now < s.ExpiresAt)

C13_RegisterKeepsNames ==
  (ret.op = "register" /\ ret.err = NoErr) =>
    LET req == ret.req[1]
        user == uheap[ret.user]
        byID == UsersGetByID(CS, user.ID)
        bySession == GetUserFromSession(CS, SS, sheap[ret.session].Token, now)
    IN  /\ user.Profile.FirstName = req.FirstName
        /\ user.Profile.LastName = req.LastName
        /\ Deref(CS, profiles[user.ID]).FirstName = req.FirstName
        /\ Deref(CS, profiles[user.ID]).LastName = req.LastName
        /\ byID.cs.uheap[byID.a].Profile.FirstName = req.FirstName
        /\ byID.cs.uheap[byID.a].Profile.LastName = req.LastName
        /\ bySession.cs.uheap[bySession.a].Profile.FirstName = req.FirstName
        /\ bySession.cs.uheap[bySession.a].Profile.LastName = req.LastName

\* C14: a token enters the Session Registry only in the last step of a
\* Register or Login call, when the request has passed validation and the
\* account the session is for is stored under the request's e-mail and (for
\* Login) the request's password verifies against its hash; a Register or
\* Login that returns an error returns no session and its returning step
\* leaves the registry as it was.
C14_SessionAfterAccountStep ==
  [][/\ (DOMAIN sessions' \ DOMAIN sessions # {}) =>
          \E p \in AuthProcs :
            LET req == th[p].req
                a == th[p].a
            IN  /\ th[p].pc \in {"reg_createSession", "login_createSession"}
                /\ th'[p].pc = "idle"
                /\ ret'.err = NoErr
                /\ ret'.user = a
                /\ DOMAIN sessions' \ DOMAIN sessions = {sheap'[ret'.session].Token}
                /\ sheap'[ret'.session].UserID = uheap[a].ID
                /\ uheap[a].ID \in DOMAIN users
                /\ users[uheap[a].ID] = a
                /\ verifyPassword(req.Password, uheap[a].PasswordHash)
                /\ th[p].pc = "reg_createSession" =>
                      /\ validateRegistrationRequest(req) = NoErr
                      /\ uheap[a].Email = ToLower(TrimSpace(req.Email))
                /\ th[p].pc = "login_createSession" =>
                      /\ validateLoginRequest(req) = NoErr
                      /\ uheap[a].Email = req.Email
     /\ (ret'.op \in {"register", "login"} /\ ret'.err # NoErr) =>
          /\ ret'.session = 0
          /\ ret'.user = 0
          /\ sessions' = sessions
          /\ sheap' = sheap]_vars

\* a Login has succeeded after a Register, and each has added its session
C14_Witness ==
  /\ ret.op = "login"
  /\ ret.err = NoErr
  /\ ret.session # 0
  /\ Cardinality(DOMAIN sessions) = 2

\* C15: in every state, a Create or an Update of a user the caller has just
\* built, and an UpdateProfile of a held user's profile the caller has just
\* written a name into, that returns a validation error returns with the
\* users, the profiles and every stored account and profile as they were
\* when it was called.
C15_ValidationErrorKeepsStore ==
  /\ \A u \in FreshUsers :
       LET cs0 == AllocUser(CS, u)
           verr == UserValidate(u)
           upd == UsersUpdate(cs0, Len(uheap) + 1, now)
       IN  verr # NoErr =>
             /\ \A o \in UsersCreate(cs0, Len(uheap) + 1, now) :
                   o.err = verr /\ Stored(o.cs) = Stored(CS)
             /\ upd.err = verr
             /\ Stored(upd.cs) = Stored(CS)
  /\ \A a \in 1..Len(uheap) : \A name \in NameInputs :
       LET cs1 == [CS EXCEPT !.uheap[a].Profile.FirstName = name]
           verr == ProfileValidate(Deref(cs1, FieldPtr(a)))
           o == UsersUpdateProfile(cs1, FieldPtr(a))
       IN  verr # NoErr => (o.err = verr /\ Stored(o.cs) = Stored(cs1))

\* an UpdateProfile with an over-long first name has returned its validation
\* error, and a Create with a malformed e-mail would be turned down here
C15_Witness ==
  /\ ret.op = "users.updateProfile"
  /\ ret.err = ErrNameTooLong
  /\ DOMAIN users # {}
  /\ \E u \in FreshUsers : UserValidate(u) = ErrInvalidEmail

\* C16: verifyPassword returns false, and does not panic, for every digest
\* that is not well formed: not six fields, another algorithm or version
\* tag, cost parameters that do not parse or are out of range (time cost 0,
\* parallelism 0 or above 255), a salt or a key that does not decode.
C16_MalformedDigestIsFalse ==
  ret.op = "verifyPassword" =>
    LET d == ret.req[2]
        wellFormed == /\ Len(d) = 6
                      /\ d[2] = "argon2id"
                      /\ d[3] = "v=19"
                      /\ d[4].ok
                      /\ d[4].t >= 1
                      /\ d[4].p \in 1..255
                      /\ d[5].ok
                      /\ d[6].ok
    IN  ~wellFormed => ret.result = "false"

\* C17: a digest hashPassword has made for a password verifies with that
\* password and with no other; a well-formed digest made with other cost
\* parameters and another salt verifies with its password and with no
\* other, so the key is derived with the digest's parameters and salt.
C17_VerifyMatchesHash ==
  /\ ret.op = "hashPassword" =>
       \A pw \in Passwords : verifyPassword(pw, ret.result) <=> (pw = ret.req[1])
  /\ (ret.op = "verifyPassword" /\ ret.req[2] \in GoodDigests) =>
       ret.result = IF ret.req[2][6].bytes.password = ret.req[1] THEN "true" ELSE "false"

\* a digest with cost parameters other than the current constants has
\* verified with its password
C17_Witness ==
  /\ ret.op = "verifyPassword"
  /\ ret.result = "true"
  /\ ret.req[2][4].t # time
  /\ ret.req[2][4].m # memory
  /\ ret.req[2][4].p # threads

\* C18: GetUserFromSession("") returns ErrSessionNotFound and no user in the
\* step it is called in, with no step of its own between call and return,
\* and that step leaves the Credential Store and the Session Registry as
\* they were; the result is the same whatever the two hold.
C18_EmptyTokenTouchesNothing ==
  [][(ret'.op = "resolve" /\ ret'.req = <<"">>) =>
       /\ ret'.err = ErrSessionNotFound
       /\ ret'.user = 0
       /\ ret'.session = 0
       /\ th' = th
       /\ UNCHANGED <<userVars, sessVars>>
       /\ GetUserFromSession(CS, SS, "", now) = [err |-> ErrSessionNotFound, a |-> 0, cs |-> CS]
       /\ GetUserFromSession(CS, SS, "", now).err =
            GetUserFromSession([uheap |-> <<>>, pheap |-> <<>>, users |-> EmptyMap,
                                profiles |-> EmptyMap],
                               [sheap |-> <<>>, sessions |-> EmptyMap], "", now).err]_vars

\* GetUserFromSession("") has returned while an account and a live session
\* are stored
C18_Witness ==
  /\ ret.op = "resolve"
  /\ ret.req = <<"">>
  /\ DOMAIN users # {}
  /\ \E token \in DOMAIN sessions : Resolves(token)

\* C19: a caller cannot tell an expired session from a revoked or never-issued
\* one.  In every state and on every path, the response to a request whose
\* token is in the registry and expired equals the response to the same
\* request with that token replaced by one that was logged out or was never
\* issued; and the response a handler has just written to an expired token is
\* that response too.
C19_ExpiredLikeRevoked ==
  /\ \A path \in Paths : \A r \in Requests :
       LET tk == GetSessionFromRequest(r) IN
       (tk \in DOMAIN sessions /\ IsExpired(sheap[sessions[tk]], now)) =>
         \A tk2 \in (Tokens \ DOMAIN sessions) \ {""} :
           LET r2 == IF r.cookie.present THEN [r EXCEPT !.cookie.value = tk2]
                     ELSE [r EXCEPT !.authorization.credentials = tk2]
           IN  ServeHTTP(path, CS, SS, r, now).response = ServeHTTP(path, CS, SS, r2, now).response
  /\ ret.op \in Paths =>
       LET r == ret.req[1]
           tk == GetSessionFromRequest(r)
       IN  (tk \in DOMAIN sessions /\ IsExpired(sheap[sessions[tk]], now)) =>
             \A tk2 \in (Tokens \ DOMAIN sessions) \ {""} :
               LET r2 == IF r.cookie.present THEN [r EXCEPT !.cookie.value = tk2]
                         ELSE [r EXCEPT !.authorization.credentials = tk2]
               IN  ret.response = ServeHTTP(ret.op, CS, SS, r2, now).response

\* a handler behind getAuthenticatedUser has just answered a request whose
\* token is expired, the resolver having said so, with 401 Unauthorized
C19_Witness ==
  /\ ret.op = "/dashboard/profile/edit/first-name"
  /\ GetSessionFromRequest(ret.req[1]) \in DOMAIN sessions
  /\ IsExpired(sheap[sessions[GetSessionFromRequest(ret.req[1])]], now)
  /\ ret.err = ErrSessionExpired
  /\ ret.response = HttpError("Unauthorized", 401)

\* C20: a request that carries the token of a live session in the cookie or
\* in the bearer Authorization header is resolved to the owning account,
\* whatever the other transport carries (nothing, an empty value or a token
\* that does not resolve): the handler gets the account and answers 200.
C20_EitherTransportResolves ==
  \A tk \in DOMAIN sessions :
    (/\ Resolves(tk)
     /\ ret.op \in {"/dashboard/profile/edit/first-name", "/dashboard"}
     /\ \/ /\ ret.req[1].cookie = Cookie(tk)
           /\ ~Resolves(ret.req[1].authorization.credentials)
        \/ /\ ret.req[1].authorization = Authorization("Bearer", tk)
           /\ ~ret.req[1].cookie.present \/ ~Resolves(ret.req[1].cookie.value))
    => /\ ret.err = NoErr
       /\ ret.user = users[sheap[sessions[tk]].UserID]
       /\ ret.response.status = 200

\* C24: the logout endpoints always answer with success and always clear the
\* caller's session cookie.  /api/auth/logout answers 200 "Logout successful"
\* and /auth/logout sends the client to /login (200 with HX-Redirect, or
\* 303), both with the Set-Cookie header that empties session_token,
\* whatever token the request carried and whatever Logout returned; and in
\* every state every request would be answered so.
C24_LogoutAlwaysSucceeds ==
  /\ ret.op = "/api/auth/logout" =>
       /\ ret.response.status = 200
       /\ ret.response.body = "Logout successful"
       /\ ret.response.data = clearSessionCookie
  /\ ret.op = "/auth/logout" =>
       /\ ret.response.status \in {200, 303}
       /\ ret.response.location = "/login"
       /\ ret.response.data = clearSessionCookie
  /\ \A r \in Requests :
       /\ handleLogout(CS, SS, r, now).response.status = 200
       /\ handleLogout(CS, SS, r, now).response.data = clearSessionCookie
       /\ \A hx \in BOOLEAN :
            /\ handleLogoutForm(CS, SS, r, hx, now).response.status \in {200, 303}
            /\ handleLogoutForm(CS, SS, r, hx, now).response.data = clearSessionCookie

\* /api/auth/logout has just answered a request whose token is in no stored
\* session, Logout having failed, while another session is stored
C24_Witness ==
  /\ ret.op = "/api/auth/logout"
  /\ GetSessionFromRequest(ret.req[1]) # ""
  /\ ret.err # NoErr
  /\ ret.response.status = 200
  /\ DOMAIN sessions # {}

C22_Only5xxForInternalErrors ==
  (/\ ret.op \in {"register", "login"}
   /\ ret.err # NoErr
   /\ ~ErrContains(ret.err, ErrRand.msg[1]))
  => ret.response.status < 500

\* C23: login attempts for one account that run concurrently with the correct
\* credentials all succeed, each gets a session of its own, and the registry
\* holds one live session per successful attempt.  Step by step: an attempt
\* with the right password that finds the account goes on to create its
\* session; the step that creates it returns success with a new Session for
\* that account, live, filed under a token no stored session has, and leaves
\* every other stored session as it was.
C23_ConcurrentLoginsSucceed ==
  [][\A p \in Procs :
       /\ (/\ th[p].pc = "login_getByEmail"
           /\ th'[p] # th[p]
           /\ th[p].req = [Email |-> e_a, Password |-> pw_1]
           /\ DOMAIN users # {})
          => th'[p].pc = "login_createSession"
       /\ (th[p].pc = "login_createSession" /\ th'[p] # th[p])
          => /\ ret'.op = "login"
             /\ ret'.err = NoErr
             /\ ret'.session = Len(sheap) + 1
             /\ sheap'[ret'.session].UserID = uheap[ret'.user].ID
             /\ ~IsExpired(sheap'[ret'.session], now)
             /\ sheap'[ret'.session].Token \notin DOMAIN sessions
             /\ sessions' = MapPut(sessions, sheap'[ret'.session].Token, ret'.session)
             /\ \A tk \in DOMAIN sessions : sheap'[sessions[tk]] = sheap[sessions[tk]]]_vars

\* a login has just succeeded while another attempt for the same account is
\* between its password check and its session, and the registry holds a
\* session of an earlier attempt
C23_Witness ==
  /\ ret.op = "login"
  /\ ret.err = NoErr
  /\ \E q \in Procs : th[q].pc = "login_createSession"
  /\ Cardinality(DOMAIN sessions) = 1

\* C25: the reads of the Credential Store, which hold only the shared lock,
\* modify no stored record: a step in which GetByID, GetByEmail or
\* GetByUsername returns leaves every User and UserProfile object and both
\* maps as they were.
C25_ReadsWriteNothing ==
  [][ret'.op \in {"users.getByID", "users.getByEmail", "users.getByUsername"}
       => /\ uheap' = uheap
          /\ pheap' = pheap
          /\ users' = users
          /\ profiles' = profiles]_vars

\* C26: a profile update of an authenticated user whose new first name
\* fails validation leaves the stored profile unchanged: in a step in which
\* handleProfileUpdateFirstName answers the edit form again, the profile the
\* profiles map holds for the account, and the profile GetByID returns for
\* it, are after the step what they were before it.
C26_RejectedUpdateChangesNothing ==
  [][(/\ ret'.op = "/dashboard/profile/update/first-name"
      /\ ret'.user # 0
      /\ ret'.response.body = "FirstNameEditForm")
       => LET id == uheap[ret'.user].ID
              before == UsersGetByID(CS, id)
              after == UsersGetByID(CS', id)
          IN  /\ Deref(CS', profiles'[id]) = Deref(CS, profiles[id])
              /\ after.cs.uheap[after.a].Profile = before.cs.uheap[before.a].Profile]_vars

\* C27: what a read returns is a snapshot: when GetByToken has just returned
\* a session and the caller extends the object it was given, without calling
\* Update, a read of that token returns after the step the session it
\* returned before it.
C27_ReturnedObjectIsSnapshot ==
  [][(/\ ret.op = "sessions.getByToken"
      /\ ret.err = NoErr
      /\ ret'.op = "session.extend"
      /\ ret'.session = ret.session)
       => LET tk == ret.req[1]
              before == SessionsGetByToken(SS, tk, now)
              after == SessionsGetByToken(SS', tk, now)
          IN  /\ after.err = before.err
              /\ sheap'[after.a] = sheap[before.a]]_vars

\* C28: when Register has failed after Users.Create stored the account and
\* before a session was stored (NewSession or Sessions.Create failed), the
\* account is in the Credential Store and no session of it is in the
\* registry; a Register with the same data returns ErrUserAlreadyExists and
\* a Login with the same e-mail and password succeeds.
C28_AccountWithoutSession ==
  (/\ ret.op = "register"
   /\ \/ ErrContains(ret.err, "failed to create session")
      \/ ErrContains(ret.err, "failed to save session"))
  => LET req == ret.req[1] IN
     /\ \E id \in DOMAIN users :
          /\ uheap[users[id]].Username = req.Username
          /\ \A tk \in DOMAIN sessions : sheap[sessions[tk]].UserID # id
     /\ \A o \in RegisterRun(CS, SS, req, "salt1", now, 4) : o.err = ErrUserAlreadyExists
     /\ \A o \in LoginRun(CS, SS, [Email |-> req.Email, Password |-> req.Password], now, 2) :
          o.err = NoErr

\* C29: in every state each token of the registry has one record and that
\* record carries the token it is filed under; and a Create that succeeds
\* for a session whose token a stored session has puts the new session in
\* the place of the old one, so that the token resolves to the new session
\* and its owner and to no other.
C29_OneSessionPerToken ==
  /\ [](\A tk \in DOMAIN sessions :
          /\ sessions[tk] \in 1..Len(sheap)
          /\ sheap[sessions[tk]].Token = tk)
  /\ [][(/\ ret'.op = "sessions.create"
          /\ ret'.err = NoErr
          /\ sheap'[ret'.session].Token \in DOMAIN sessions)
          => LET tk == sheap'[ret'.session].Token IN
             /\ sessions'[tk] = ret'.session
             /\ DOMAIN sessions' = DOMAIN sessions
             /\ \A k \in DOMAIN sessions \ {tk} : sessions'[k] = sessions[k]
             /\ SessionsGetByToken(SS', tk, now).a = ret'.session
             /\ sheap'[SessionsGetByToken(SS', tk, now).a].UserID = sheap'[ret'.session].UserID]_vars

\* a Create has just succeeded for a session whose token another session,
\* of another owner, was stored under: the registry holds the new one
C29_Witness ==
  /\ ret.op = "sessions.create"
  /\ ret.err = NoErr
  /\ ret.session # 0
  /\ \E a \in 1..Len(sheap) :
       /\ a # ret.session
       /\ sheap[a].ID # ""
       /\ sheap[a].Token = sheap[ret.session].Token
       /\ sheap[a].UserID # sheap[ret.session].UserID
  /\ sessions[sheap[ret.session].Token] = ret.session

\* C30: the sweep removes exactly the sessions whose expiry has passed and
\* leaves the others as they were; for every token GetUserFromSession
\* succeeds after the sweep if and only if it succeeded before it, at the
\* same time; and a second sweep changes nothing.
C30_SweepRemovesExactlyExpired ==
  [][ret'.op = "sessions.deleteExpired"
       => /\ ret'.err = NoErr
          /\ DOMAIN sessions' = {tk \in DOMAIN sessions : ~IsExpired(sheap[sessions[tk]], now)}
          /\ \A tk \in DOMAIN sessions' : sessions'[tk] = sessions[tk]
          /\ sheap' = sheap
          /\ \A tk \in Tokens :
               (GetUserFromSession(CS', SS', tk, now).err = NoErr)
                 <=> (GetUserFromSession(CS, SS, tk, now).err = NoErr)
          /\ SessionsDeleteExpired(SS', now).ss = SS']_vars

\* the sweep has just run; a session that was stored and has expired is gone
\* from the registry, and a live session of the account is still resolved
C30_Witness ==
  /\ ret.op = "sessions.deleteExpired"
  /\ \E a \in 1..Len(sheap) :
       /\ sheap[a].ID # ""
       /\ IsExpired(sheap[a], now)
       /\ sheap[a].Token \notin DOMAIN sessions
  /\ \E tk \in DOMAIN sessions : Resolves(tk)

\* C31: in every state of the Credential Store the ids that have an account
\* are the ids that have a profile, and the profile stored for an id carries
\* that id.
C31_ProfilePerAccount ==
  /\ DOMAIN users = DOMAIN profiles
  /\ \A id \in DOMAIN profiles : Deref(CS, profiles[id]).UserID = id

\* UpdateProfile has just refused the profile of an account that was created
\* and deleted: neither map holds its id
C31_Witness ==
  /\ ret.op = "users.updateProfile"
  /\ ret.err = ErrUserNotFound
  /\ uheap[ret.user].ID # ""
  /\ uheap[ret.user].ID \notin DOMAIN users
  /\ uheap[ret.user].ID \notin DOMAIN profiles

\* C32: every stored account is canonical and valid, and so is every stored
\* profile: the account passes User.Validate (address shape, at most 255
\* characters, username of 3 to 30 allowed characters) and User.Sanitize
\* leaves it as it is (lower-case e-mail, nothing to trim); the profile
\* passes Profile.Validate (names up to 100, bio up to 1000 characters) and
\* Profile.Sanitize leaves it as it is.
C32_StoredRecordsCanonical ==
  /\ \A id \in DOMAIN users :
       /\ UserValidate(uheap[users[id]]) = NoErr
       /\ UserSanitize(uheap[users[id]]) = uheap[users[id]]
  /\ \A id \in DOMAIN profiles :
       /\ ProfileValidate(Deref(CS, profiles[id])) = NoErr
       /\ ProfileSanitize(Deref(CS, profiles[id])) = Deref(CS, profiles[id])

\* C33: GetByUserID(userID) returns exactly the stored sessions of that
\* account whose expiry has not passed: every session it returns is filed in
\* the registry, belongs to userID and is not expired, and every session
\* that is filed, belongs to userID and is not expired is returned.
C33_GetByUserIDExact ==
  ret.op = "sessions.getByUserID" =>
    /\ \A a \in ret.result :
         /\ \E tk \in DOMAIN sessions : sessions[tk] = a
         /\ sheap[a].UserID = ret.req[1]
         /\ ~IsExpired(sheap[a], now)
    /\ \A tk \in DOMAIN sessions :
         (sheap[sessions[tk]].UserID = ret.req[1] /\ ~IsExpired(sheap[sessions[tk]], now))
           => sessions[tk] \in ret.result

\* GetByUserID has just returned a live session of an account that also has
\* an expired session in the registry
C33_Witness ==
  /\ ret.op = "sessions.getByUserID"
  /\ ret.result # {}
  /\ \E tk \in DOMAIN sessions :
       /\ sheap[sessions[tk]].UserID = ret.req[1]
       /\ IsExpired(sheap[sessions[tk]], now)

\* C34: GetUserFromSession returns an account only when a live session is
\* stored under the token and the account of the session's owner id is
\* stored, and the account returned is that one; and a token whose session
\* belongs to an account that was deleted does not resolve to an account, now
\* or after any later step.
C34_ResolvesOnlyToStoredOwner ==
  /\ [](ret.op = "getUserFromSession" /\ ret.err = NoErr
         => /\ ret.req[1] \in DOMAIN sessions
            /\ ~IsExpired(sheap[sessions[ret.req[1]]], now)
            /\ sheap[sessions[ret.req[1]]].UserID \in DOMAIN users
            /\ ret.user = users[sheap[sessions[ret.req[1]]].UserID]
            /\ uheap[ret.user].ID = sheap[sessions[ret.req[1]]].UserID)
  /\ [][\A tk \in DOMAIN sessions :
          (/\ sheap[sessions[tk]].UserID \notin DOMAIN users
           /\ \E a \in 1..Len(uheap) : uheap[a].ID = sheap[sessions[tk]].UserID)
          => /\ GetUserFromSession(CS, SS, tk, now).err # NoErr
             /\ GetUserFromSession(CS', SS', tk, now').err # NoErr]_vars

\* C35: Logout(token) removes only the session stored under that token: the
\* registry after the call is the registry before it without that token, no
\* session object is changed, the Credential Store is as it was, and every
\* other token resolves after the call to what it resolved to before it.
C35_LogoutRemovesOnlyItsSession ==
  [][ret'.op = "logout"
       => /\ sessions' = IF ret'.req[1] \in DOMAIN sessions
                         THEN MapDelete(sessions, ret'.req[1]) ELSE sessions
          /\ sheap' = sheap
          /\ CS' = CS
          /\ \A tk \in Tokens \ {ret'.req[1]} :
               /\ GetUserFromSession(CS', SS', tk, now).err = GetUserFromSession(CS, SS, tk, now).err
               /\ GetUserFromSession(CS', SS', tk, now).a = GetUserFromSession(CS, SS, tk, now).a]_vars

\* Logout has just removed a session of an account whose other session is
\* still stored and resolves
C35_Witness ==
  /\ ret.op = "logout"
  /\ ret.req[1] \notin DOMAIN sessions
  /\ \E a \in 1..Len(sheap) : \E tk \in DOMAIN sessions :
       /\ sheap[a].Token = ret.req[1]
       /\ sheap[a].ID # ""
       /\ sheap[sessions[tk]].UserID = sheap[a].UserID
       /\ Resolves(tk)

\* C36: DeleteByUserID(userID) removes every session of that account, live
\* or expired, and leaves the sessions of the other accounts as they were:
\* after the call the registry holds exactly the sessions of other owners,
\* unchanged, GetByUserID(userID) is empty and GetByToken returns
\* ErrSessionNotFound for every token the account had in the registry.
C36_DeleteByUserIDExact ==
  [][ret'.op = "sessions.deleteByUserID"
       => /\ ret'.err = NoErr
          /\ DOMAIN sessions' =
               {tk \in DOMAIN sessions : sheap[sessions[tk]].UserID # ret'.req[1]}
          /\ \A tk \in DOMAIN sessions' : sessions'[tk] = sessions[tk]
          /\ sheap' = sheap
          /\ SessionsGetByUserID(SS', ret'.req[1], now) = {}
          /\ \A tk \in DOMAIN sessions :
               sheap[sessions[tk]].UserID = ret'.req[1]
                 => SessionsGetByToken(SS', tk, now).err = ErrSessionNotFound]_vars

\* DeleteByUserID has just run for an account whose expired session is gone
\* from the registry, and a session of another account is still stored
C36_Witness ==
  /\ ret.op = "sessions.deleteByUserID"
  /\ \E a \in 1..Len(sheap) :
       /\ sheap[a].ID # ""
       /\ sheap[a].UserID = ret.req[1]
       /\ IsExpired(sheap[a], now)
       /\ sheap[a].Token \notin DOMAIN sessions
  /\ \E tk \in DOMAIN sessions : sheap[sessions[tk]].UserID # ret.req[1]

\* C37: Create never replaces or removes a stored account.  A Create that
\* fails leaves both maps and every stored record as they were; a Create
\* that succeeds adds one account under an id that no account had, and every
\* account that was stored is stored as before, also when the caller has
\* set the ID of the user it passes.
C37_CreateNeverReplaces ==
  [][ret'.op = "users.create"
       => /\ \A id \in DOMAIN users :
               /\ id \in DOMAIN users'
               /\ users'[id] = users[id]
               /\ uheap'[users'[id]] = uheap[users[id]]
               /\ id \in DOMAIN profiles'
               /\ Deref(CS', profiles'[id]) = Deref(CS, profiles[id])
          /\ ret'.err # NoErr => DOMAIN users' = DOMAIN users
          /\ ret'.err = NoErr =>
               /\ uheap'[ret'.user].ID \notin DOMAIN users
               /\ DOMAIN users' = DOMAIN users \cup {uheap'[ret'.user].ID}]_vars

\* C38: no call holds the lock of the Credential Store and the lock of the
\* Session Registry at the same time, and no call asks for a lock it holds;
\* whenever a call is in progress some thread can take a step; and every
\* call that has started returns, holding no lock: the MaxCalls calls that
\* can start are followed by a state from which on every thread is idle.
C38_NoDeadlockAndTermination ==
  /\ [](\A p \in Procs :
          /\ ~(\E m1, m2 \in {"R", "W"} : Holds(p, "users", m1) /\ Holds(p, "sessions", m2))
          /\ (InLocks(p) /\ th[p].a <= Len(LockProgram(th[p].req))
               /\ LockProgram(th[p].req)[th[p].a].do = "lock")
              => \A m \in {"R", "W"} : ~Holds(p, LockProgram(th[p].req)[th[p].a].store, m)
          /\ th[p].pc = "idle" => ~HoldsAny(p))
  /\ []((\E p \in Procs : InLocks(p))
          => \E p \in Procs : CanStep(p) \/ ENABLED LockReturn(p))
  /\ <>[](\A p \in Procs : th[p].pc = "idle" /\ ~HoldsAny(p))

\* a thread waits for the write lock of the Credential Store, having called
\* Lock, while another thread holds that lock for reading
C38_Witness ==
  \E p, q \in Procs :
    /\ p # q
    /\ Announced(p, "users")
    /\ Holds(q, "users", "R")
    /\ ~CanStep(p)

====
